---- MODULE Spec2Model ----
(***************************************************************************)
(* Generation Orchestration Engine of MuMuAINovel (backend/app).           *)
(*                                                                         *)
(* The module models one tenant and one project of that tenant:            *)
(*   - the relational store (Project.current_words, outlines, chapters,    *)
(*     analysis tasks, plot analyses),                                     *)
(*   - the CRUD handlers of api/chapters.py and api/outlines.py,           *)
(*   - the background analysis worker and the status query,                *)
(*   - the SSE generators (chapter generate, outline new / continue,       *)
(*     wizard character stage).                                            *)
(*                                                                         *)
(* The specifications share the variables; each one moves the part of the  *)
(* state its title names and leaves the rest as Init put it.  Among them:  *)
(*   SpecTask   the AnalysisTask life cycle (worker, status query, clock)  *)
(*   SpecStore  sequential outline / chapter operations                    *)
(*   SpecGen    concurrent chapter and outline streams with disconnects    *)
(*   SpecSse    the event protocol of every kind of stream                 *)
(*   SpecEdit   a chapter stream beside chapter edits                      *)
(***************************************************************************)
EXTENDS Integers, Sequences, FiniteSets, TLC

VARIABLES
    now,            \* wall clock, in seconds
    current_words,  \* Project.current_words
    outlines,       \* rows of table outlines: [id, order_index]
    chapters,       \* rows of table chapters: [id, chapter_number, content, word_count]
    nextOutlineId,  \* next fresh outline id
    nextChapterId,  \* next fresh chapter id
    characters,     \* number of rows of table characters
    tasks,          \* rows of table analysis_tasks, task id = position
    creating,       \* task ids committed by trigger_chapter_analysis, worker not yet added
    scheduled,      \* task ids handed to background_tasks.add_task, worker not yet begun
    workers,        \* task id -> state of analyze_chapter_background for that task
    analyses,       \* chapter ids that have a PlotAnalysis row
    streams,        \* stream id -> state of one SSE generator
    last,           \* the last request served and its response
    all_characters, \* the parsed character batch the wizard is persisting
    persist_pc,     \* position of the wizard's character persistence
    char_rows,      \* rows of table characters: [id, name, is_organization]
    organizations,  \* rows of table organizations: character ids
    relationships,  \* rows of table character_relationships: [from, to]
    members,        \* rows of table organization_members: [organization, character]
    wizard_status,  \* Project.wizard_status
    story_memories, \* rows of table story_memories: [id, chapter_id, memory_type, content]
    analysis_result, \* task id -> the analysis result its worker holds
    projects,       \* ids of the rows of table projects
    default_styles, \* rows of table project_default_styles: [project_id, style_id]
    set_default,    \* request id -> state of one set_default_style request
    world,          \* state of one world_building_generator
    users,          \* user id -> "absent", "active" or "disabled" (trust_level -1)
    engine_cache,   \* keys of database._engine_cache
    response,       \* the last request dispatched and what was done for it
    write_lock,     \* db_write_locks[user_id] of one user: asyncio.Lock state
    actors,         \* task id -> state of one task that writes to the user's store
    write_log,      \* the last write to the user's store: who, and holding the lock?
    outline_count,  \* number of rows of table outlines of a long project
    continuation,   \* state of one continue_outline_generator on that project
    callers,        \* caller id -> state of one get_engine or init_db call of a user
    user_lock,      \* _engine_locks[user_id]: the caller that holds it, or NOBODY
    engine,         \* engines created for the user, and whether one is cached
    relationship_types, \* times the preset relationship types are in the user's store
    writing_styles, \* times the global preset styles are in the user's store
    requests,       \* request id -> state of one request that depends on get_db
    session_stats   \* database._session_stats: created, closed, active

graphVars == <<all_characters, persist_pc, char_rows, organizations, relationships, members>>

\* The variables of the parts of the program added to the module later.
memVars == <<story_memories, analysis_result>>

\* What neither the wizard's character stage nor its outline stage writes.
styleVars == <<projects, default_styles, set_default, world>>
authVars == <<users, engine_cache, response>>

\* The groups of variables that follow a group.
lockVars == <<write_lock, actors, write_log>>

contextVars == <<outline_count, continuation>>

initVars == <<callers, user_lock, engine, relationship_types, writing_styles>>
sessionVars == <<requests, session_stats>>

afterInitVars == <<sessionVars>>
afterContextVars == <<initVars, afterInitVars>>
afterLockVars == <<contextVars, afterContextVars>>
afterAuthVars == <<lockVars, afterLockVars>>
afterStyleVars == <<authVars, afterAuthVars>>

afterMemVars == <<styleVars, afterStyleVars>>

extraVars == <<memVars, afterMemVars>>

extVars == <<graphVars, wizard_status, extraVars>>

vars == <<now, current_words, outlines, chapters, nextOutlineId, nextChapterId,
          characters, tasks, creating, scheduled, workers, analyses, streams, last,
          extVars>>

storeVars == <<current_words, outlines, chapters, nextOutlineId, nextChapterId, characters>>
taskVars == <<tasks, creating, scheduled, workers, analyses>>

\* The variables of the parts of the program modelled up to the write lock.
baseVars == <<now, graphVars, wizard_status, memVars, styleVars, authVars, storeVars,
              taskVars, streams, last>>

\* All the variables but those of the write lock.
notLockVars == <<baseVars, afterLockVars>>

(***************************************************************************)
(* Bounds of the model.                                                    *)
(***************************************************************************)
MaxClockTicks == 5    \* the clock advances at most this many times
MaxTasks == 1         \* analysis tasks ever created
MaxIds == 2           \* outline rows, and chapter rows, ever created
MaxIdx == 2           \* largest order_index / chapter_number a request or reply carries
MaxChunks == 2        \* chunks the LLM streams for one chapter
MaxReply == 2         \* items in one parsed LLM outline reply
MaxConcurrent == 2    \* SSE streams opened where streams run concurrently
MaxServed == 1        \* SSE streams opened where streams are served one at a time
MaxSurplus == 1       \* items a wizard reply holds beyond the number asked for
MaxBatch == 2         \* entities in the character batch that is persisted
MaxRefs == 1          \* relationships, and memberships, one entity's data lists
MaxHooks == 1         \* hooks in one analysis result
MaxStates == 2        \* character states in one analysis result
MaxAnalyses == 2      \* analysis tasks created where a chapter is analysed again
MaxSetDefault == 2    \* set-default requests served
MaxProjects == 2      \* project rows ever created
MaxActors == 3        \* tasks that write to the store of one user
MaxSections == 2      \* write sections one task enters

(***************************************************************************)
(* Program constants.                                                      *)
(***************************************************************************)
ANALYSIS_RUNNING_TIMEOUT == 60
ANALYSIS_PENDING_TIMEOUT == 120
COMMIT_RETRIES == 3
OUTLINE_BATCH_SIZE == 5
WIZARD_BATCH_SIZE == 3
WIZARD_MAX_RETRIES == 3
STAGE_CHAPTER_COUNT == 5
STAGE_BATCH_SIZE == 5
STAGE_MAX_RETRIES == 3

\* The clock is sampled twice per running-timeout, so that an age of exactly
\* the threshold and ages on both sides of it are all reached.
TickStep == ANALYSIS_RUNNING_TIMEOUT \div 2

(***************************************************************************)
(* Values.                                                                 *)
(***************************************************************************)
\* Column value NULL / Python None for a text column.
NULL == <<"NULL">>

\* Text is a sequence of characters; " " is whitespace, "x" is any other one.
Chars == {" ", "x"}
Texts == {<<>>, <<" ">>, <<"x">>}

\* Python truthiness of an Optional[str]: None and "" are falsy.
Truthy(c) == c # NULL /\ c # <<>>

\* len(content) of a str.
StrLen(c) == Len(c)

\* content.strip() == "" for a str.
StripsToEmpty(c) == \A i \in 1..Len(c) : c[i] = " "

\* `not ch.content or ch.content.strip() == ""`
Incomplete(c) == ~Truthy(c) \/ StripsToEmpty(c)

Max(a, b) == IF a >= b THEN a ELSE b
Min(a, b) == IF a <= b THEN a ELSE b

NoOp == [op |-> "init", arg |-> 0, ok |-> TRUE, recovered |-> FALSE]
Served(op, arg, ok) == [op |-> op, arg |-> arg, ok |-> ok, recovered |-> FALSE]

ChapterById(id) == CHOOSE c \in chapters : c.id = id
ChapterExists(id) == \E c \in chapters : c.id = id
ChapterIds == {c.id : c \in chapters}
OutlineIds == {o.id : o \in outlines}

(***************************************************************************)
(* Memory fragments of an analysis: services/plot_analyzer.py              *)
(***************************************************************************)
HOOK_MIN_STRENGTH == 6

\* The analysis JSON, as far as memories are extracted from it: one summary,
\* hooks with a strength, character states with the character's name.
HookData == [strength : {HOOK_MIN_STRENGTH - 1, HOOK_MIN_STRENGTH}, content : {"h"}]
StateData == {"a", "b"}

SeqUpTo(S, n) == UNION {[1..k -> S] : k \in 0..n}

Analyses ==
    [summary : {"s"},
     hooks : SeqUpTo(HookData, MaxHooks),
     character_states : SeqUpTo(StateData, MaxStates)]

\* The worker holds no analysis result.
NoAnalysis == [summary |-> "", hooks |-> <<>>, character_states |-> <<>>]

Memory(type, content) == [type |-> type, content |-> content]

RECURSIVE HookMemories(_)
HookMemories(hooks) ==
    IF hooks = <<>> THEN <<>>
    ELSE (IF Head(hooks).strength >= HOOK_MIN_STRENGTH
          THEN <<Memory("hook", Head(hooks).content)>> ELSE <<>>)
         \o HookMemories(Tail(hooks))

StateMemories(states) == [k \in DOMAIN states |-> Memory("character_event", states[k])]

\* extract_memories_from_analysis: the summary, the strong hooks, every
\* character state, in this order.
ExtractMemories(analysis) ==
    (IF analysis.summary # "" THEN <<Memory("chapter_summary", analysis.summary)>> ELSE <<>>)
    \o HookMemories(analysis.hooks)
    \o StateMemories(analysis.character_states)

\* list.index(x): the first position that holds a value equal to x, from 0.
IndexOf(list, x) == (CHOOSE i \in DOMAIN list :
                        list[i] = x /\ \A j \in DOMAIN list : list[j] = x => i <= j) - 1

\* memory_records[k]['id'] = f"{chapter_id}_{mem['type']}_{len(memory_records)}"
MemoryRecordId(chapter_id, memories, k) == <<chapter_id, memories[k].type, k - 1>>

\* The StoryMemory of memories[k]: id = memory_records[memories.index(mem)]['id']
NewMemoryRows(chapter_id, memories) ==
    [k \in DOMAIN memories |->
        [id |-> MemoryRecordId(chapter_id, memories, IndexOf(memories, memories[k]) + 1),
         chapter_id |-> chapter_id,
         memory_type |-> memories[k].type,
         content |-> memories[k].content]]

\* story_memories.id is the primary key.
InsertFails(rows, stored) ==
    \/ \E i, j \in DOMAIN rows : i # j /\ rows[i].id = rows[j].id
    \/ \E i \in DOMAIN rows : \E m \in stored : m.id = rows[i].id

(***************************************************************************)
(* AnalysisTask life cycle: api/chapters.py                                *)
(***************************************************************************)
TaskIds == 1..Len(tasks)

\* Task rows come from the analyze endpoint and from chapter streams.
MaxTaskRows == MaxTasks + MaxConcurrent + MaxServed

\* `beside` records that the worker got its analysis result while another
\* worker of the same chapter held one it had not stored yet.
IdleWorker == [pc |-> "none", retry |-> 0, raised |-> FALSE, beside |-> FALSE]

\* Another worker of the chapter of task t holds an analysis result and has
\* not inserted its fragments.
RunsBeside(t) ==
    \E u \in TaskIds \ {t} :
        /\ tasks[u].chapter = tasks[t].chapter
        /\ workers[u].pc \in {"save_analysis", "save_memories", "add_memories"}

\* session.commit() of a unit of work that changed only `progress`:
\* the UPDATE names the changed column alone.
SetProgress(t, p) == [tasks EXCEPT ![t].progress = p]

\* POST /chapters/{id}/analyze, up to the commit of the new task row.
TriggerAnalysisUpTo(c, cap) ==
    /\ Len(tasks) < cap
    /\ ChapterExists(c)
    /\ ~Incomplete(ChapterById(c).content)
    /\ tasks' = Append(tasks, [chapter |-> c, status |-> "pending", progress |-> 0,
                               created_at |-> now, started_at |-> -1])
    /\ creating' = creating \cup {Len(tasks) + 1}
    /\ last' = Served("trigger_analysis", Len(tasks) + 1, TRUE)
    /\ UNCHANGED <<now, extVars, storeVars, scheduled, workers, analyses, streams>>

TriggerAnalysis(c) == TriggerAnalysisUpTo(c, MaxTasks)

\* A worker started with no regard to the request's commit.
SpawnsAnyTask(t) == t \notin scheduled /\ workers[t].pc = "none"

\* add_task comes after `await db.commit()` of the task row.
SpawnsCommitted(t) == t \in creating

\* ... after `await asyncio.sleep(3)`: background_tasks.add_task(...)
TriggerSchedule(t) ==
    /\ SpawnsCommitted(t)
    /\ creating' = creating \ {t}
    /\ scheduled' = scheduled \cup {t}
    /\ UNCHANGED <<now, extVars, storeVars, tasks, workers, analyses, streams, last>>

\* analyze_chapter_background: open a session and load the task row;
\* `if not task: return`.
\* The session keeps the loaded object (expire_on_commit=False).
WorkerLoad(t) ==
    /\ t \in scheduled
    /\ scheduled' = scheduled \ {t}
    /\ workers' = [workers EXCEPT ![t] =
                      [pc |-> IF t \in TaskIds THEN "set_running" ELSE "no_task",
                       retry |-> 0, raised |-> FALSE, beside |-> FALSE]]
    /\ UNCHANGED <<now, extVars, storeVars, tasks, creating, analyses, streams, last>>

\* step 1: status = 'running', started_at = now, progress = 10, commit.
WorkerSetRunning(t) ==
    /\ workers[t].pc = "set_running"
    /\ tasks' = [tasks EXCEPT ![t].status = "running", ![t].started_at = now,
                              ![t].progress = 10]
    /\ workers' = [workers EXCEPT ![t].pc = "read_chapter"]
    /\ UNCHANGED <<now, extVars, storeVars, creating, scheduled, analyses, streams, last>>

\* step 2: read the chapter; no chapter or no content fails the task.
WorkerReadChapter(t) ==
    /\ workers[t].pc = "read_chapter"
    /\ LET c == tasks[t].chapter
           found == ChapterExists(c) /\ Truthy(ChapterById(c).content)
       IN  IF found
           THEN /\ tasks' = SetProgress(t, 20)
                /\ workers' = [workers EXCEPT ![t].pc = "analyze"]
           ELSE /\ tasks' = [tasks EXCEPT ![t].status = "failed"]
                /\ workers' = [workers EXCEPT ![t].pc = "done"]
    /\ UNCHANGED <<now, extVars, storeVars, creating, scheduled, analyses, streams, last>>

\* step 3: PlotAnalyzer.analyze_chapter returns a result, returns None, or raises.
WorkerAnalyze(t) ==
    /\ workers[t].pc = "analyze"
    /\ \E outcome \in {"result", "none", "raise"} :
         CASE outcome = "result" ->
                /\ tasks' = SetProgress(t, 60)
                /\ workers' = [workers EXCEPT ![t].pc = "save_analysis",
                                              ![t].beside = RunsBeside(t)]
                /\ \E analysis \in Analyses :
                     analysis_result' = [analysis_result EXCEPT ![t] = analysis]
           [] outcome = "none" ->
                /\ tasks' = [tasks EXCEPT ![t].status = "failed"]
                /\ workers' = [workers EXCEPT ![t].pc = "done"]
                /\ analysis_result' = analysis_result
           [] outcome = "raise" ->
                /\ tasks' = tasks
                /\ workers' = [workers EXCEPT ![t].pc = "handler", ![t].retry = 0]
                /\ analysis_result' = analysis_result
    /\ UNCHANGED <<now, graphVars, wizard_status, afterMemVars, story_memories, storeVars, creating,
                   scheduled, analyses, streams, last>>

\* What a worker that went on without storing the analysis would do.
WorkerSkipAnalysis(t) ==
    /\ workers[t].pc = "save_analysis"
    /\ tasks' = SetProgress(t, 80)
    /\ workers' = [workers EXCEPT ![t].pc = "save_memories"]
    /\ UNCHANGED <<now, extVars, storeVars, creating, scheduled, analyses, streams, last>>

\* step 4: upsert the PlotAnalysis row of the chapter, commit, progress = 80, commit.
WorkerSaveAnalysis(t) ==
    /\ workers[t].pc = "save_analysis"
    /\ analyses' = analyses \cup {tasks[t].chapter}
    /\ tasks' = SetProgress(t, 80)
    /\ workers' = [workers EXCEPT ![t].pc = "save_memories"]
    /\ UNCHANGED <<now, extVars, storeVars, creating, scheduled, streams, last>>

\* step 5, first write section: delete the chapter's StoryMemory rows, commit.
WorkerSaveMemories(t) ==
    /\ workers[t].pc = "save_memories"
    /\ story_memories' = {m \in story_memories : m.chapter_id # tasks[t].chapter}
    /\ workers' = [workers EXCEPT ![t].pc = "add_memories"]
    /\ UNCHANGED <<now, graphVars, wizard_status, afterMemVars, analysis_result, storeVars, tasks,
                   creating, scheduled, analyses, streams, last>>

\* step 5, second write section: one StoryMemory per extracted memory, commit.
\* Two rows of one id, or a row whose id is stored already, fail the INSERT:
\* the commit raises and the session rolls the unit of work back.
WorkerAddMemories(t) ==
    /\ workers[t].pc = "add_memories"
    /\ LET rows == NewMemoryRows(tasks[t].chapter, ExtractMemories(analysis_result[t]))
       IN  IF InsertFails(rows, story_memories)
           THEN /\ story_memories' = story_memories
                /\ workers' = [workers EXCEPT ![t].pc = "handler", ![t].retry = 0]
                /\ analysis_result' = [analysis_result EXCEPT ![t] = NoAnalysis]
           ELSE /\ story_memories' = story_memories \cup {rows[k] : k \in DOMAIN rows}
                /\ workers' = [workers EXCEPT ![t].pc = "vector_add"]
                /\ analysis_result' = analysis_result
    /\ UNCHANGED <<now, graphVars, wizard_status, afterMemVars, storeVars, tasks, creating, scheduled,
                   analyses, streams, last>>

\* step 5, end: memory_service.batch_add_memories may raise.  The worker's
\* local variables are not read after this step.
WorkerVectorAdd(t) ==
    /\ workers[t].pc = "vector_add"
    /\ \E raised \in BOOLEAN :
         workers' = [workers EXCEPT ![t].pc = IF raised THEN "handler" ELSE "complete",
                                    ![t].retry = 0]
    /\ analysis_result' = [analysis_result EXCEPT ![t] = NoAnalysis]
    /\ UNCHANGED <<now, graphVars, wizard_status, afterMemVars, story_memories, storeVars, tasks,
                   creating, scheduled, analyses, streams, last>>

\* The last failure of the final update reaches `except Exception`.
RaisesAfterLastRetry == "handler"

\* `else: logger.error(...)`: the last failure of the final update is logged
\* and the worker goes on to `if not update_success`, then returns.
AfterLastRetry == "done"

\* final update, `for retry in range(3)`: progress = 100, status = 'completed',
\* commit.  A commit that raises is retried; after the third failure the worker
\* returns without raising.
WorkerComplete(t) ==
    /\ workers[t].pc = "complete"
    /\ \E commit_ok \in BOOLEAN :
         IF commit_ok
         THEN /\ tasks' = [tasks EXCEPT ![t].status = "completed", ![t].progress = 100]
              /\ workers' = [workers EXCEPT ![t].pc = "done"]
         ELSE /\ tasks' = tasks
              /\ workers' = [workers EXCEPT
                    ![t].retry = @ + 1,
                    ![t].pc = IF workers[t].retry + 1 >= COMMIT_RETRIES
                              THEN AfterLastRetry ELSE "complete"]
    /\ UNCHANGED <<now, extVars, storeVars, creating, scheduled, analyses, streams, last>>

\* `except Exception`: up to 3 attempts to re-select the task and commit
\* status = 'failed', progress = 0.
WorkerHandler(t) ==
    /\ workers[t].pc = "handler"
    /\ \E commit_ok \in BOOLEAN :
         IF commit_ok
         THEN /\ tasks' = [tasks EXCEPT ![t].status = "failed", ![t].progress = 0]
              /\ workers' = [workers EXCEPT ![t].pc = "done", ![t].raised = TRUE]
         ELSE /\ tasks' = tasks
              /\ workers' = [workers EXCEPT
                    ![t].retry = @ + 1,
                    ![t].raised = TRUE,
                    ![t].pc = IF workers[t].retry + 1 >= COMMIT_RETRIES
                              THEN "done" ELSE "handler"]
    /\ UNCHANGED <<now, extVars, storeVars, creating, scheduled, analyses, streams, last>>

\* The task the status query selects:
\* `.where(chapter_id == c).order_by(created_at.desc()).limit(1)`
LatestTasks(c) ==
    {t \in TaskIds : /\ tasks[t].chapter = c
                     /\ \A u \in TaskIds : tasks[u].chapter = c
                            => tasks[u].created_at <= tasks[t].created_at}

\* Mutant: the running task is held to the pending threshold.
RunningTimedOutLate(t) == now - tasks[t].started_at > ANALYSIS_PENDING_TIMEOUT

\* `task.started_at and (current_time - task.started_at) > timedelta(minutes=1)`
RunningTimedOut(t) == now - tasks[t].started_at > ANALYSIS_RUNNING_TIMEOUT

\* `task.created_at and (current_time - task.created_at) > timedelta(minutes=2)`
PendingTimedOut(t) == now - tasks[t].created_at > ANALYSIS_PENDING_TIMEOUT

\* GET /chapters/{id}/analysis/status
StatusQuery(c) ==
    /\ IF LatestTasks(c) = {}
       THEN /\ last' = Served("status_query", 0, FALSE)
            /\ tasks' = tasks
       ELSE \E t \in LatestTasks(c) :
              LET recover == \/ tasks[t].status = "running" /\ RunningTimedOut(t)
                             \/ tasks[t].status = "pending" /\ PendingTimedOut(t)
              IN  /\ tasks' = IF recover
                              THEN [tasks EXCEPT ![t].status = "failed", ![t].progress = 0]
                              ELSE tasks
                  /\ last' = [op |-> "status_query", arg |-> t, ok |-> TRUE,
                              recovered |-> recover]
    /\ UNCHANGED <<now, extVars, storeVars, creating, scheduled, workers, analyses, streams>>

Tick ==
    /\ now < MaxClockTicks * TickStep
    /\ now' = now + TickStep
    /\ UNCHANGED <<extVars, storeVars, taskVars, streams, last>>

(***************************************************************************)
(* Helpers on rows.                                                        *)
(***************************************************************************)
OutlineById(id) == CHOOSE o \in outlines : o.id = id
OutlineExists(id) == \E o \in outlines : o.id = id

\* All orders in which a SELECT without ORDER BY may return the rows S.
Perms(S) ==
    {f \in [1..Cardinality(S) -> S] :
        \A i, j \in 1..Cardinality(S) : i # j => f[i] # f[j]}

\* Outline titles are told apart by the outline they belong to: the title of
\* an outline is modelled by the outline's id, and 0 is a title of no outline.
OutlineTitle(o) == o.id

\* A chapter row as INSERTed when no content is given (word_count default 0).
DraftChapter(id, n, title) ==
    [id |-> id, chapter_number |-> n, title |-> title, content |-> NULL,
     word_count |-> 0]

(***************************************************************************)
(* Chapter CRUD: api/chapters.py                                           *)
(***************************************************************************)
\* POST /chapters.  `len(chapter.content)` raises on a request without content,
\* before anything is added to the session.
CreateChapter(n, c) ==
    /\ nextChapterId <= MaxIds
    /\ IF c = NULL
       THEN /\ UNCHANGED <<chapters, current_words, nextChapterId>>
       ELSE /\ chapters' = chapters \cup
                   {[id |-> nextChapterId, chapter_number |-> n, title |-> 0,
                     content |-> c, word_count |-> StrLen(c)]}
            /\ current_words' = current_words + StrLen(c)
            /\ nextChapterId' = nextChapterId + 1
    /\ UNCHANGED <<now, extVars, characters, outlines, nextOutlineId, taskVars, streams, last>>

\* PUT /chapters/{id} with `content` in the request body.
\* `if "content" in update_data and chapter.content:` guards the recount.
UpdateChapter(id, c) ==
    /\ ChapterExists(id)
    /\ LET ch == ChapterById(id)
           old_word_count == ch.word_count
           recount == Truthy(c)
           new == IF recount
                  THEN [ch EXCEPT !.content = c, !.word_count = StrLen(c)]
                  ELSE [ch EXCEPT !.content = c]
       IN  /\ chapters' = (chapters \ {ch}) \cup {new}
           /\ current_words' = IF recount
                               THEN current_words - old_word_count + StrLen(c)
                               ELSE current_words
    /\ UNCHANGED <<now, extVars, characters, outlines, nextOutlineId, nextChapterId, taskVars, streams, last>>

\* DELETE /chapters/{id}
DeleteChapter(id) ==
    /\ ChapterExists(id)
    /\ LET ch == ChapterById(id)
       IN  /\ current_words' = Max(0, current_words - ch.word_count)
           /\ chapters' = chapters \ {ch}
    /\ UNCHANGED <<now, extVars, characters, outlines, nextOutlineId, nextChapterId, taskVars, streams, last>>

(***************************************************************************)
(* Outline CRUD: api/outlines.py                                           *)
(***************************************************************************)
\* POST /outlines: the outline and its chapter record (order_index >= 1).
CreateOutline(n) ==
    /\ nextOutlineId <= MaxIds
    /\ nextChapterId <= MaxIds
    /\ outlines' = outlines \cup {[id |-> nextOutlineId, order_index |-> n]}
    /\ chapters' = chapters \cup {DraftChapter(nextChapterId, n, nextOutlineId)}
    /\ nextOutlineId' = nextOutlineId + 1
    /\ nextChapterId' = nextChapterId + 1
    /\ UNCHANGED <<now, extVars, characters, current_words, taskVars, streams, last>>

\* What a delete that left the later outlines where they are would do.
KeepSubsequent(order, outs, chs) == [ok |-> TRUE, outlines |-> outs, chapters |-> chs]

\* delete_outline, the loop over `subsequent_outlines`: each outline moves up by
\* one, and so does the chapter found by `scalar_one_or_none()` under its old
\* number (the session autoflushes before each SELECT).  More than one chapter
\* under that number raises.
RECURSIVE ShiftSubsequent(_, _, _)
ShiftSubsequent(order, outs, chs) ==
    IF order = <<>>
    THEN [ok |-> TRUE, outlines |-> outs, chapters |-> chs]
    ELSE LET o == CHOOSE x \in outs : x.id = Head(order)
             old_order == o.order_index
             found == {c \in chs : c.chapter_number = old_order}
         IN  IF Cardinality(found) > 1
             THEN [ok |-> FALSE, outlines |-> outs, chapters |-> chs]
             ELSE ShiftSubsequent(
                     Tail(order),
                     (outs \ {o}) \cup {[o EXCEPT !.order_index = old_order - 1]},
                     {IF c \in found THEN [c EXCEPT !.chapter_number = old_order - 1]
                                     ELSE c : c \in chs})

\* DELETE /outlines/{id}.  An exception leaves the request uncommitted; the
\* response is 200 when the commit is reached.
DeleteOutline(id) ==
    /\ OutlineExists(id)
    /\ LET o == OutlineById(id)
           deleted_order == o.order_index
           chs == {c \in chapters : c.chapter_number # deleted_order}
           outs == outlines \ {o}
           subsequent_outlines == {x.id : x \in {y \in outs : y.order_index > deleted_order}}
       IN  \E order \in Perms(subsequent_outlines) :
              LET r == ShiftSubsequent(order, outs, chs)
              IN  IF r.ok
                  THEN /\ outlines' = r.outlines
                       /\ chapters' = r.chapters
                       /\ last' = Served("delete_outline", deleted_order, TRUE)
                  ELSE /\ UNCHANGED <<outlines, chapters>>
                       /\ last' = Served("delete_outline", deleted_order, FALSE)
    /\ UNCHANGED <<now, extVars, characters, current_words, nextOutlineId, nextChapterId, taskVars, streams>>

\* The requests of POST /outlines/reorder that name existing outlines: a new
\* order_index (>= 1, otherwise unconstrained) for each outline named.
ReorderRequests == UNION {[D -> 1..MaxIdx] : D \in SUBSET OutlineIds}

\* What a reorder that renumbered the outlines and left the chapters alone
\* would do.
ReorderOutlinesOnly(req) ==
    /\ outlines' = {IF o.id \in DOMAIN req
                    THEN [o EXCEPT !.order_index = req[o.id]]
                    ELSE o : o \in outlines}
    /\ last' = Served("reorder_outlines", Cardinality(DOMAIN req), TRUE)
    /\ UNCHANGED <<now, extVars, characters, current_words, chapters, nextOutlineId,
                   nextChapterId, taskVars, streams>>

\* POST /outlines/reorder.  Step 1 pairs each named outline with the chapter
\* `.first()` returns for its old number (any of them, or none); step 2 writes
\* the new numbers and the outline's title to its chapter; step 3 commits.
ReorderOutlines(req) ==
    /\ \E pick \in [DOMAIN req -> ChapterIds \cup {0}] :
         /\ \A i \in DOMAIN req :
              LET old_order == OutlineById(i).order_index
                  found == {c.id : c \in {x \in chapters : x.chapter_number = old_order}}
              IN  IF found = {} THEN pick[i] = 0 ELSE pick[i] \in found
         \* a chapter paired with several outlines keeps the number written last
         /\ \E lastWriter \in [{pick[i] : i \in DOMAIN req} \ {0} -> DOMAIN req] :
              /\ \A c \in DOMAIN lastWriter : pick[lastWriter[c]] = c
              /\ outlines' = {IF o.id \in DOMAIN req
                              THEN [o EXCEPT !.order_index = req[o.id]]
                              ELSE o : o \in outlines}
              /\ chapters' = {IF c.id \in DOMAIN lastWriter
                              THEN [c EXCEPT !.chapter_number = req[lastWriter[c.id]],
                                             !.title = OutlineTitle(
                                                 OutlineById(lastWriter[c.id]))]
                              ELSE c : c \in chapters}
    /\ last' = Served("reorder_outlines", Cardinality(DOMAIN req), TRUE)
    /\ UNCHANGED <<now, extVars, characters, current_words, nextOutlineId, nextChapterId, taskVars, streams>>

(***************************************************************************)
(* SSE generators: common parts.                                           *)
(***************************************************************************)
StreamIds == 1..Len(streams)

\* Local state of one generator.  `pending` says that the session's open
\* transaction holds flushed, uncommitted statements, `rolled_back` that the
\* exit path rolled such statements back; `row` and `words` are the Chapter
\* and Project.current_words objects the session loaded.
NewStream(kind) ==
    [kind |-> kind, pc |-> "begin", events |-> <<>>, closed |-> FALSE,
     db_committed |-> FALSE, pending |-> FALSE, rolled_back |-> FALSE,
     chapter |-> 0, row |-> DraftChapter(0, 0, 0), words |-> 0, full_content |-> <<>>,
     task |-> 0, reply |-> <<>>, todo |-> 0, made |-> 0, start |-> 0,
     batch |-> 0, total |-> 0, retry |-> 0, asked |-> <<>>, all_outlines |-> <<>>,
     prepass |-> "none", mcp_reference_materials |-> ""]

\* A generator that has returned: its frame and its event log are gone.
Ended == [NewStream("ended") EXCEPT !.pc = "end"]

\* Event types sent any number of times in a row; the log keeps one per run.
Repeatable == {"progress", "chunk", "content"}

\* `yield <event>`: the event is delivered and the generator is suspended at pc.
Yield(st, ev, pc) ==
    [st EXCEPT !.pc = pc,
               !.events = IF /\ ev \in Repeatable
                             /\ st.events # <<>>
                             /\ st.events[Len(st.events)] = ev
                          THEN st.events
                          ELSE Append(st.events, ev)]

\* The generator of stream s is suspended at pc and the consumer is connected.
At(s, kind, pc) ==
    /\ streams[s].kind = kind
    /\ streams[s].pc = pc
    /\ ~streams[s].closed

\* SQLite admits one write transaction at a time: a session that writes waits
\* while another session holds flushed, uncommitted statements.
WriteLockFree(s) == \A o \in StreamIds : o # s => ~streams[o].pending

CeilDiv(a, b) == (a + b - 1) \div b

\* The consumer disconnects; the generator sees it where it is suspended.
Close(s) ==
    /\ streams[s].pc # "end"
    /\ ~streams[s].closed
    /\ streams' = [streams EXCEPT ![s].closed = TRUE]
    /\ UNCHANGED <<now, extVars, storeVars, taskVars, last>>

\* What a mistaken exit path would do: commit the statements flushed so far.
CommitOnExit(s) ==
    IF streams[s].pending /\ streams[s].kind = "outline_new"
    THEN /\ outlines' = {}
         /\ chapters' = {}
         /\ UNCHANGED <<current_words, nextOutlineId, nextChapterId, characters>>
    ELSE IF streams[s].pending /\ streams[s].kind = "wizard"
    THEN /\ characters' = characters + streams[s].made
         /\ UNCHANGED <<current_words, outlines, chapters, nextOutlineId, nextChapterId>>
    ELSE UNCHANGED storeVars

\* `if not db_committed and db.in_transaction(): await db.rollback()`
RollbackOnExit(s) == UNCHANGED storeVars

\* except GeneratorExit / finally: roll back, close the session.
HandleExit(s) ==
    /\ streams[s].closed
    /\ streams[s].pc # "end"
    /\ RollbackOnExit(s)
    /\ streams' = [streams EXCEPT ![s] =
            [Ended EXCEPT !.closed = TRUE,
                          !.rolled_back = ~streams[s].db_committed /\ streams[s].pending]]
    /\ UNCHANGED <<now, extVars, taskVars, last>>

\* The generator runs off its last yield and returns.
StreamFinish(s) ==
    /\ streams[s].pc = "last_yield"
    /\ ~streams[s].closed
    /\ streams' = [streams EXCEPT ![s] = Ended]
    /\ UNCHANGED <<now, extVars, storeVars, taskVars, last>>

\* What a generator without the send_result line would do.
SkipResult(s) ==
    /\ streams[s].pc = "result"
    /\ ~streams[s].closed
    /\ streams' = [streams EXCEPT ![s].pc = "progress100"]
    /\ UNCHANGED <<now, extVars, storeVars, taskVars, last>>

\* send_result(...)
EmitResult(s) ==
    /\ streams[s].pc = "result"
    /\ ~streams[s].closed
    /\ streams' = [streams EXCEPT ![s] = Yield(@, "result", "progress100")]
    /\ UNCHANGED <<now, extVars, storeVars, taskVars, last>>

\* send_progress(..., 100, "success")
EmitProgress100(s) ==
    /\ streams[s].pc = "progress100"
    /\ ~streams[s].closed
    /\ streams' = [streams EXCEPT ![s] = Yield(@, "progress", "done")]
    /\ UNCHANGED <<now, extVars, storeVars, taskVars, last>>

\* send_done()
EmitDone(s) ==
    /\ streams[s].pc = "done"
    /\ ~streams[s].closed
    /\ streams' = [streams EXCEPT ![s] = Yield(@, "done", "last_yield")]
    /\ UNCHANGED <<now, extVars, storeVars, taskVars, last>>

(***************************************************************************)
(* Chapter generation stream: api/chapters.py                              *)
(***************************************************************************)
\* What a check that let every chapter through would do.
CheckNothing(ch) == TRUE

\* check_prerequisites: every earlier chapter has content.
CheckPrerequisites(ch) ==
    \/ ch.chapter_number = 1
    \/ \A p \in chapters :
          p.chapter_number < ch.chapter_number => ~Incomplete(p.content)

\* The chapter numbers of S in ascending order (`order_by(chapter_number)`).
RECURSIVE NumbersAscending(_)
NumbersAscending(S) ==
    IF S = {} THEN <<>>
    ELSE LET m == CHOOSE x \in S : \A y \in S : x.chapter_number <= y.chapter_number
         IN  <<m.chapter_number>> \o NumbersAscending(S \ {m})

\* check_prerequisites, `missing_numbers`: the numbers of the earlier chapters
\* without content, as the error message lists them.
MissingNumbers(ch) ==
    NumbersAscending({p \in chapters : /\ p.chapter_number < ch.chapter_number
                                       /\ Incomplete(p.content)})

\* POST /chapters/{id}/generate-stream: the checks made before streaming.
\* A failed check is answered with 400 and the error message.
OpenChapterStream(c) ==
    /\ ChapterExists(c)
    /\ LET can_generate == CheckPrerequisites(ChapterById(c))
       IN  /\ streams' = IF can_generate
                         THEN Append(streams, [NewStream("chapter") EXCEPT !.chapter = c])
                         ELSE streams
           /\ last' = [op |-> "generate_stream", arg |-> c, ok |-> can_generate,
                       recovered |-> FALSE,
                       missing |-> IF can_generate THEN <<>>
                                   ELSE MissingNumbers(ChapterById(c))]
    /\ UNCHANGED <<now, extVars, storeVars, taskVars>>

\* event_generator up to `yield start`: the session loads chapter and project.
GenStart(s) ==
    /\ At(s, "chapter", "begin")
    /\ IF ChapterExists(streams[s].chapter)
       THEN streams' = [streams EXCEPT ![s] =
                Yield([@ EXCEPT !.row = ChapterById(streams[s].chapter),
                                !.words = current_words],
                      "start", "stream")]
       ELSE streams' = [streams EXCEPT ![s] = Yield(@, "error", "last_yield")]
    /\ UNCHANGED <<now, extVars, storeVars, taskVars, last>>

\* One chunk of generate_text_stream.
GenChunk(s) ==
    /\ At(s, "chapter", "stream")
    /\ Len(streams[s].full_content) < MaxChunks
    /\ streams' = [streams EXCEPT ![s] =
            Yield([@ EXCEPT !.full_content = Append(@, "x")], "content", "stream")]
    /\ UNCHANGED <<now, extVars, storeVars, taskVars, last>>

\* What an error path that kept reading the LLM stream would do.
GenFailGoesOn(s) ==
    /\ At(s, "chapter", "stream")
    /\ streams' = [streams EXCEPT ![s] = Yield(@, "error", "stream")]
    /\ UNCHANGED <<now, extVars, storeVars, taskVars, last>>

\* generate_text_stream raises: except Exception, rollback, `yield error`.
GenFail(s) ==
    /\ At(s, "chapter", "stream")
    /\ streams' = [streams EXCEPT ![s] = Yield(@, "error", "last_yield")]
    /\ UNCHANGED <<now, extVars, storeVars, taskVars, last>>

\* The LLM stream has ended: write content, word_count, status and
\* project.current_words, commit.  The unit of work UPDATEs the attributes
\* whose value differs from the loaded one; the UPDATE of a chapter row that
\* is gone raises.
GenCommit(s) ==
    /\ At(s, "chapter", "stream")
    /\ WriteLockFree(s)
    /\ LET st == streams[s]
           old_word_count == st.row.word_count
           new_word_count == StrLen(st.full_content)
           words == st.words - old_word_count + new_word_count
       IN  \E statusChanged \in BOOLEAN :
             IF ChapterExists(st.chapter)
             THEN /\ chapters' =
                       (chapters \ {ChapterById(st.chapter)}) \cup
                       {[ChapterById(st.chapter) EXCEPT
                           !.content = IF st.full_content # st.row.content
                                       THEN st.full_content ELSE @,
                           !.word_count = IF new_word_count # st.row.word_count
                                          THEN new_word_count ELSE @]}
                  /\ current_words' = IF words # st.words THEN words ELSE current_words
                  /\ streams' = [streams EXCEPT ![s].db_committed = TRUE,
                                                ![s].pc = "create_task"]
                  /\ UNCHANGED <<outlines, nextOutlineId, nextChapterId, characters>>
             ELSE IF \/ statusChanged
                     \/ st.full_content # st.row.content
                     \/ new_word_count # st.row.word_count
             THEN /\ streams' = [streams EXCEPT ![s] = Yield(@, "error", "last_yield")]
                  /\ UNCHANGED storeVars
             ELSE /\ current_words' = IF words # st.words THEN words ELSE current_words
                  /\ streams' = [streams EXCEPT ![s].db_committed = TRUE,
                                                ![s].pc = "create_task"]
                  /\ UNCHANGED <<outlines, chapters, nextOutlineId, nextChapterId,
                                 characters>>
    /\ UNCHANGED <<now, extVars, taskVars, last>>

\* AnalysisTask(status='pending', progress=0), commit, asyncio.sleep(0.05).
GenCreateTask(s) ==
    /\ At(s, "chapter", "create_task")
    /\ WriteLockFree(s)
    /\ tasks' = Append(tasks, [chapter |-> streams[s].chapter, status |-> "pending",
                               progress |-> 0, created_at |-> now, started_at |-> -1])
    /\ creating' = creating \cup {Len(tasks) + 1}
    /\ streams' = [streams EXCEPT ![s].task = Len(tasks) + 1, ![s].pc = "schedule"]
    /\ UNCHANGED <<now, extVars, storeVars, scheduled, workers, analyses, last>>

\* background_tasks.add_task(analyze_chapter_background, ...), `yield done`.
GenDone(s) ==
    /\ At(s, "chapter", "schedule")
    /\ creating' = creating \ {streams[s].task}
    /\ scheduled' = scheduled \cup {streams[s].task}
    /\ streams' = [streams EXCEPT ![s] = Yield(@, "done", "after_done")]
    /\ UNCHANGED <<now, extVars, storeVars, tasks, workers, analyses, last>>

\* `yield analysis_started`
GenAnalysisStarted(s) ==
    /\ At(s, "chapter", "after_done")
    /\ streams' = [streams EXCEPT ![s] = Yield(@, "analysis_started", "last_yield")]
    /\ UNCHANGED <<now, extVars, storeVars, taskVars, last>>

(***************************************************************************)
(* Outline generation streams: api/outlines.py                             *)
(***************************************************************************)
\* One item of the parsed LLM reply: <<n>> carries "chapter_number": n,
\* <<>> has no such key.
ReplyItems == {<<>>} \cup {<<n>> : n \in 1..MaxIdx}

\* _parse_ai_response: a list of any length.
Replies == UNION {[1..k -> ReplyItems] : k \in 0..MaxReply}

\* Room for the rows of reply r below the id bound.
FitsIds(r) ==
    /\ nextOutlineId + Len(r) - 1 <= MaxIds
    /\ nextChapterId + Len(r) - 1 <= MaxIds

\* order_idx = chapter_data.get("chapter_number", start_index + idx)
OrderIdx(outline_data, start_index, i) ==
    IF outline_data[i] = <<>> THEN start_index + (i - 1) ELSE outline_data[i][1]

\* _save_outlines: one Outline and one draft Chapter per item.
SaveOutlines(outline_data, start_index) ==
    [outlines |-> {[id |-> nextOutlineId + i - 1,
                    order_index |-> OrderIdx(outline_data, start_index, i)] :
                       i \in 1..Len(outline_data)},
     chapters |-> {DraftChapter(nextChapterId + i - 1,
                                OrderIdx(outline_data, start_index, i),
                                nextOutlineId + i - 1) :
                       i \in 1..Len(outline_data)}]

\* POST /outlines/generate-stream resolved to mode "new".
OpenOutlineNew ==
    /\ streams' = Append(streams, NewStream("outline_new"))
    /\ UNCHANGED <<now, extVars, storeVars, taskVars, last>>

\* POST /outlines/generate-stream resolved to mode "continue", chapter_count n.
OpenOutlineContinue(n) ==
    /\ IF outlines # {}
       THEN /\ streams' = Append(streams, [NewStream("outline_continue") EXCEPT !.todo = n])
       ELSE /\ UNCHANGED streams
    /\ UNCHANGED <<now, extVars, storeVars, taskVars, last>>

\* Outcomes of the tool pre-pass of one LLM call: enable_mcp is false; the
\* call made tool calls and returned reference material; it made no tool
\* call; generate_text_with_mcp raised.
PrePassOutcomes == {"disabled", "reference", "no_calls", "raise"}

\* What a generator would do that let the exception of the pre-pass through to
\* its handler.
PrePassAborts(st, outcome, pc) ==
    IF outcome = "raise"
    THEN Yield([st EXCEPT !.prepass = outcome], "error", "last_yield")
    ELSE Yield([st EXCEPT !.prepass = outcome,
                          !.mcp_reference_materials =
                              IF outcome = "reference" THEN "materials" ELSE ""],
               "progress", pc)

\* `mcp_reference_materials = ""; if enable_mcp: try: ... except Exception:
\* mcp_reference_materials = ""`, then the next progress event.
AfterPrePass(st, outcome, pc) ==
    Yield([st EXCEPT !.prepass = outcome,
                     !.mcp_reference_materials =
                         IF outcome = "reference" THEN "materials" ELSE ""],
          "progress", pc)

\* What a generator that deleted the old rows before calling the LLM would do.
NewBeginCleans(s) ==
    /\ At(s, "outline_new", "begin")
    /\ WriteLockFree(s)
    /\ streams' = [streams EXCEPT ![s] = Yield([@ EXCEPT !.pending = TRUE],
                                               "progress", "llm")]
    /\ UNCHANGED <<now, extVars, storeVars, taskVars, last>>

\* new_outline_generator up to the LLM call: the project and its characters
\* are loaded, the tool pre-pass runs, the prompt is composed.
NewBegin(s) ==
    /\ At(s, "outline_new", "begin")
    /\ \E outcome \in PrePassOutcomes :
         streams' = [streams EXCEPT ![s] = AfterPrePass(@, outcome, "llm")]
    /\ UNCHANGED <<now, extVars, storeVars, taskVars, last>>

\* generate_text returns and is parsed: progress 70, progress 75.
NewGenerate(s) ==
    /\ At(s, "outline_new", "llm")
    /\ \E r \in Replies :
          /\ FitsIds(r)
          /\ streams' = [streams EXCEPT ![s] =
                 Yield([@ EXCEPT !.reply = r, !.asked = Append(@, streams[s].todo)],
                       "progress", "clean")]
    /\ UNCHANGED <<now, extVars, storeVars, taskVars, last>>

\* generate_text raises: except Exception, rollback, send_error.
NewFail(s) ==
    /\ At(s, "outline_new", "llm")
    /\ streams' = [streams EXCEPT ![s] =
           Yield([@ EXCEPT !.asked = Append(@, streams[s].todo)],
                 "error", "last_yield")]
    /\ UNCHANGED <<now, extVars, storeVars, taskVars, last>>

\* DELETE FROM outlines, DELETE FROM chapters (not committed), progress 80.
NewClean(s) ==
    /\ At(s, "outline_new", "clean")
    /\ WriteLockFree(s)
    /\ streams' = [streams EXCEPT ![s] = Yield([@ EXCEPT !.pending = TRUE],
                                               "progress", "save")]
    /\ UNCHANGED <<now, extVars, storeVars, taskVars, last>>

\* _save_outlines(start_index=1), commit, progress 95.
NewSave(s) ==
    /\ At(s, "outline_new", "save")
    /\ FitsIds(streams[s].reply)
    /\ LET saved == SaveOutlines(streams[s].reply, 1)
       IN  /\ outlines' = saved.outlines
           /\ chapters' = saved.chapters
    /\ nextOutlineId' = nextOutlineId + Len(streams[s].reply)
    /\ nextChapterId' = nextChapterId + Len(streams[s].reply)
    /\ streams' = [streams EXCEPT ![s] =
            Yield([@ EXCEPT !.pending = FALSE, !.db_committed = TRUE],
                  "progress", "result")]
    /\ UNCHANGED <<now, extVars, current_words, characters, taskVars, last>>

\* continue_outline_generator up to the batch loop.
ContBegin(s) ==
    /\ At(s, "outline_continue", "begin")
    /\ IF outlines = {}
       THEN streams' = [streams EXCEPT ![s] = Yield(@, "error", "last_yield")]
       ELSE LET last_chapter_number ==
                    CHOOSE n \in {o.order_index : o \in outlines} :
                        \A o \in outlines : o.order_index <= n
            IN  streams' = [streams EXCEPT ![s] =
                    Yield([@ EXCEPT !.total = CeilDiv(streams[s].todo, OUTLINE_BATCH_SIZE),
                                    !.start = last_chapter_number + 1],
                          "progress", "batch")]
    /\ UNCHANGED <<now, extVars, storeVars, taskVars, last>>

\* current_batch_size = min(batch_size, remaining_chapters): the number of
\* outlines the prompt of the next batch asks for.
CurrentBatchSize(st) == Min(OUTLINE_BATCH_SIZE, st.todo - st.made)

\* One batch, up to the LLM call: progress events, memory context, the tool
\* pre-pass of the batch.
ContPrePass(s) ==
    /\ At(s, "outline_continue", "batch")
    /\ \E outcome \in PrePassOutcomes :
         streams' = [streams EXCEPT ![s] = AfterPrePass(@, outcome, "call")]
    /\ UNCHANGED <<now, extVars, storeVars, taskVars, last>>

\* One batch: generate_text, parse.
ContGenerate(s) ==
    /\ At(s, "outline_continue", "call")
    /\ \E r \in Replies :
          /\ FitsIds(r)
          /\ streams' = [streams EXCEPT ![s] =
                 Yield([@ EXCEPT !.reply = r,
                                 !.asked = Append(@, CurrentBatchSize(streams[s]))],
                       "progress", "save_batch")]
    /\ UNCHANGED <<now, extVars, storeVars, taskVars, last>>

\* What a handler that undid the whole request on failure would do.
ContFailUndoesAll(s) ==
    /\ At(s, "outline_continue", "call")
    /\ streams' = [streams EXCEPT ![s] = Yield(@, "error", "last_yield")]
    /\ outlines' = {o \in outlines : o.id > MaxIds}
    /\ chapters' = {c \in chapters : c.id > MaxIds}
    /\ UNCHANGED <<now, extVars, current_words, characters, nextOutlineId, nextChapterId,
                   taskVars, last>>

\* generate_text raises: except Exception, rollback, send_error.
ContFail(s) ==
    /\ At(s, "outline_continue", "call")
    /\ streams' = [streams EXCEPT ![s] =
           Yield([@ EXCEPT !.asked = Append(@, CurrentBatchSize(streams[s]))],
                 "error", "last_yield")]
    /\ UNCHANGED <<now, extVars, storeVars, taskVars, last>>

\* _save_outlines(start_index=current_start_chapter), commit,
\* current_start_chapter += current_batch_size, progress.
ContSave(s) ==
    /\ At(s, "outline_continue", "save_batch")
    /\ WriteLockFree(s)
    /\ FitsIds(streams[s].reply)
    /\ LET st == streams[s]
           saved == SaveOutlines(st.reply, st.start)
           remaining_chapters == st.todo - st.made
           current_batch_size == CurrentBatchSize(st)
       IN  /\ outlines' = outlines \cup saved.outlines
           /\ chapters' = chapters \cup saved.chapters
           /\ streams' = [streams EXCEPT ![s] =
                  Yield([@ EXCEPT !.made = @ + Len(st.reply),
                                  !.start = @ + current_batch_size,
                                  !.batch = @ + 1],
                        "progress",
                        IF st.batch + 1 < st.total THEN "batch" ELSE "finalize")]
    /\ nextOutlineId' = nextOutlineId + Len(streams[s].reply)
    /\ nextChapterId' = nextChapterId + Len(streams[s].reply)
    /\ UNCHANGED <<now, extVars, current_words, characters, taskVars, last>>

\* After the last batch: db_committed = True, progress 95.
ContFinalize(s) ==
    /\ At(s, "outline_continue", "finalize")
    /\ streams' = [streams EXCEPT ![s] = Yield([@ EXCEPT !.db_committed = TRUE],
                                               "progress", "result")]
    /\ UNCHANGED <<now, extVars, storeVars, taskVars, last>>

(***************************************************************************)
(* Wizard character stage: api/wizard_stream.py                            *)
(***************************************************************************)
\* POST /wizard-stream/characters for n characters.
OpenWizard(n) ==
    /\ streams' = Append(streams, [NewStream("wizard") EXCEPT !.todo = n])
    /\ UNCHANGED <<now, extVars, storeVars, taskVars, last>>

\* characters_generator up to the batch loop.
WizBegin(s) ==
    /\ At(s, "wizard", "begin")
    /\ streams' = [streams EXCEPT ![s] =
            Yield([@ EXCEPT !.total = CeilDiv(streams[s].todo, WIZARD_BATCH_SIZE)],
                  "progress", "attempt")]
    /\ UNCHANGED <<now, extVars, storeVars, taskVars, last>>

\* One attempt at the current batch begins: progress.
WizAttempt(s) ==
    /\ At(s, "wizard", "attempt")
    /\ streams' = [streams EXCEPT ![s] =
            Yield([@ EXCEPT !.full_content = <<>>], "progress", "chunks")]
    /\ UNCHANGED <<now, extVars, storeVars, taskVars, last>>

\* One chunk of generate_text_stream.
WizChunk(s) ==
    /\ At(s, "wizard", "chunks")
    /\ Len(streams[s].full_content) < MaxChunks
    /\ streams' = [streams EXCEPT ![s] =
            Yield([@ EXCEPT !.full_content = Append(@, "x")], "chunk", "chunks")]
    /\ UNCHANGED <<now, extVars, storeVars, taskVars, last>>

\* json.loads of the accumulated text: a list of k items, of any content.
ParsedList(k) == [i \in 1..k |-> <<>>]

\* The lengths a reply to a batch of n items can have; a reply that does not
\* parse has no items.
ReplyLengths(n, parses) == IF parses THEN 0..(n + MaxSurplus) ELSE {0}

\* A loop that does not count its failed attempts.
RetryForgotten(retry_count) == retry_count

\* `retry_count += 1`
RetryCount(retry_count) == retry_count + 1

\* The stream has ended and the text is parsed.
WizParse(s) ==
    /\ At(s, "wizard", "chunks")
    /\ LET st == streams[s]
           current_batch_size == Min(WIZARD_BATCH_SIZE, st.todo - st.made)
       IN  \E parses \in BOOLEAN : \E k \in ReplyLengths(current_batch_size, parses) :
             LET characters_data == ParsedList(k)
                 outcome == IF ~parses THEN "raised"
                            ELSE IF Len(characters_data) # current_batch_size
                                 THEN "wrong_count"
                                 ELSE "ok"
                 got == [st EXCEPT !.reply = characters_data,
                                   !.asked = Append(@, current_batch_size)]
             IN  streams' = [streams EXCEPT ![s] =
                   IF outcome = "ok"
                   THEN Yield([got EXCEPT !.made = @ + Len(characters_data),
                                          !.batch = @ + 1, !.retry = 0,
                                          !.full_content = <<>>],
                              "progress",
                              IF st.batch + 1 < st.total THEN "chunks" ELSE "persist")
                   ELSE IF outcome = "wrong_count"
                   THEN IF st.retry < WIZARD_MAX_RETRIES - 1
                        THEN Yield([got EXCEPT !.retry = RetryCount(st.retry)],
                                   "progress", "attempt")
                        ELSE Yield(got, "error", "last_yield")
                   ELSE IF RetryCount(st.retry) < WIZARD_MAX_RETRIES
                        THEN Yield([got EXCEPT !.retry = RetryCount(st.retry)],
                                   "progress", "attempt")
                        ELSE Yield([got EXCEPT !.retry = RetryCount(st.retry)],
                                   "error", "last_yield")]
    /\ UNCHANGED <<now, extVars, storeVars, taskVars, last>>

\* Character rows are added and flushed; progress events up to the commit.
WizPersist(s) ==
    /\ At(s, "wizard", "persist")
    /\ WriteLockFree(s)
    /\ streams' = [streams EXCEPT ![s] = Yield([@ EXCEPT !.pending = TRUE],
                                               "progress", "commit")]
    /\ UNCHANGED <<now, extVars, storeVars, taskVars, last>>

\* commit, db_committed = True, send_result.
WizCommit(s) ==
    /\ At(s, "wizard", "commit")
    /\ characters' = characters + streams[s].made
    /\ streams' = [streams EXCEPT ![s] =
            Yield([@ EXCEPT !.pending = FALSE, !.db_committed = TRUE],
                  "result", "progress100")]
    /\ UNCHANGED <<now, extVars, current_words, outlines, chapters, nextOutlineId,
                   nextChapterId, taskVars, last>>

(***************************************************************************)
(* Wizard outline stage: api/wizard_stream.py                              *)
(***************************************************************************)
\* POST /wizard-stream/outline: chapter_count is fixed, whatever the request says.
OpenWizardOutline ==
    /\ streams' = Append(streams, [NewStream("wizard_outline")
                                      EXCEPT !.todo = STAGE_CHAPTER_COUNT])
    /\ UNCHANGED <<now, extVars, storeVars, taskVars, last>>

\* outline_generator up to the batch loop.
WoBegin(s) ==
    /\ At(s, "wizard_outline", "begin")
    /\ streams' = [streams EXCEPT ![s] =
            Yield([@ EXCEPT !.total = CeilDiv(streams[s].todo, STAGE_BATCH_SIZE)],
                  "progress", "attempt")]
    /\ UNCHANGED <<now, extVars, storeVars, taskVars, last>>

\* One attempt at the current batch begins: progress.
WoAttempt(s) ==
    /\ At(s, "wizard_outline", "attempt")
    /\ streams' = [streams EXCEPT ![s] =
            Yield([@ EXCEPT !.full_content = <<>>], "progress", "chunks")]
    /\ UNCHANGED <<now, extVars, storeVars, taskVars, last>>

\* One chunk of generate_text_stream.
WoChunk(s) ==
    /\ At(s, "wizard_outline", "chunks")
    /\ Len(streams[s].full_content) < MaxChunks
    /\ streams' = [streams EXCEPT ![s] =
            Yield([@ EXCEPT !.full_content = Append(@, "x")], "chunk", "chunks")]
    /\ UNCHANGED <<now, extVars, storeVars, taskVars, last>>

\* The batch loop moves on from a batch: to the first attempt at the next
\* batch, or past the loop, where an empty all_outlines ends the request.
WoNextBatch(st) ==
    LET nx == [st EXCEPT !.batch = @ + 1, !.retry = 0, !.full_content = <<>>]
    IN  IF st.batch + 1 < st.total
        THEN Yield(nx, "progress", "chunks")
        ELSE IF nx.all_outlines = <<>>
             THEN Yield(nx, "error", "last_yield")
             ELSE Yield(nx, "progress", "persist")

\* The stream has ended and the text is parsed.
WoParse(s) ==
    /\ At(s, "wizard_outline", "chunks")
    /\ LET st == streams[s]
           start_chapter == st.batch * STAGE_BATCH_SIZE + 1
           end_chapter == Min((st.batch + 1) * STAGE_BATCH_SIZE, st.todo)
           current_batch_size == end_chapter - start_chapter + 1
       IN  \E parses \in BOOLEAN : \E k \in ReplyLengths(current_batch_size, parses) :
             LET batch_outline_data == ParsedList(k)
                 got == [st EXCEPT !.reply = batch_outline_data,
                                   !.asked = Append(@, current_batch_size)]
                 renumbered == [i \in 1..k |-> <<start_chapter + i - 1>>]
             IN  streams' = [streams EXCEPT ![s] =
                   IF ~parses
                   THEN IF st.retry + 1 < STAGE_MAX_RETRIES
                        THEN Yield([got EXCEPT !.retry = @ + 1], "progress", "attempt")
                        ELSE WoNextBatch(Yield(got, "progress", "chunks"))
                   ELSE IF /\ Len(batch_outline_data) < current_batch_size
                           /\ st.retry < STAGE_MAX_RETRIES - 1
                        THEN Yield([got EXCEPT !.retry = @ + 1], "progress", "attempt")
                        ELSE WoNextBatch([got EXCEPT !.all_outlines = @ \o renumbered,
                                                     !.made = @ + k])]
    /\ UNCHANGED <<now, extVars, storeVars, taskVars, last>>

\* One Outline and one draft Chapter per item of outline_data[:chapter_count],
\* project.wizard_status = "completed", commit, db_committed = True, send_result.
WoPersist(s) ==
    /\ At(s, "wizard_outline", "persist")
    /\ WriteLockFree(s)
    /\ LET st == streams[s]
           outline_data == SubSeq(st.all_outlines, 1, Min(Len(st.all_outlines), st.todo))
           saved == SaveOutlines(outline_data, 1)
       IN  /\ outlines' = outlines \cup saved.outlines
           /\ chapters' = chapters \cup saved.chapters
           /\ nextOutlineId' = nextOutlineId + Len(outline_data)
           /\ nextChapterId' = nextChapterId + Len(outline_data)
    /\ streams' = [streams EXCEPT ![s] =
            Yield([@ EXCEPT !.db_committed = TRUE], "result", "progress100")]
    /\ wizard_status' = "completed"
    /\ UNCHANGED <<now, graphVars, extraVars, current_words, characters, taskVars, last>>

(***************************************************************************)
(* Wizard character stage, persistence of the batch: api/wizard_stream.py  *)
(* Each item of all_characters is the char_data of one entity:             *)
(*   name                      its name, NO_NAME when the key is missing   *)
(*   is_organization           whether it is an organization               *)
(*   relationships_array       target_character_name of each relationship  *)
(*   relationships             the same in the older list format           *)
(*   organization_memberships  organization_name of each membership        *)
(***************************************************************************)
\* Names the model's replies give to entities, and names they mention.
Names == {"a", "b"}
NO_NAME == "no name key"
UNNAMED == "unnamed"
Mentioned == Names \cup {"c"}

\* Sequences of at most n elements of S.

CharData ==
    [name : Names \cup {NO_NAME},
     is_organization : BOOLEAN,
     relationships_array : SeqUpTo(Mentioned, MaxRefs),
     relationships : SeqUpTo({"c", UNNAMED}, MaxRefs),
     organization_memberships : SeqUpTo(Mentioned, MaxRefs)]

\* The batches characters_generator can be left with after its batch loop.
Batches == UNION {[1..k -> CharData] : k \in 1..MaxBatch}

\* valid_entity_names, valid_organization_names
ValidEntityNames(batch) ==
    {batch[i].name : i \in {j \in 1..Len(batch) : batch[j].name # NO_NAME}}
ValidOrganizationNames(batch) ==
    {batch[i].name : i \in {j \in 1..Len(batch) :
                                batch[j].name # NO_NAME /\ batch[j].is_organization}}

\* The hallucination filter: references to names outside the batch are dropped.
CleanReferences ==
    /\ persist_pc = "clean"
    /\ LET InBatch(n) == n \in ValidEntityNames(all_characters)
           IsOrg(n) == n \in ValidOrganizationNames(all_characters)
       IN  all_characters' =
             [i \in 1..Len(all_characters) |->
                [all_characters[i] EXCEPT
                   !.relationships_array = SelectSeq(@, InBatch),
                   !.organization_memberships = SelectSeq(@, IsOrg)]]
    /\ persist_pc' = "characters"
    /\ UNCHANGED <<char_rows, organizations, relationships, members>>
    /\ UNCHANGED <<now, wizard_status, extraVars, storeVars, taskVars, streams, last>>

\* One Character row per item, flushed.
CreateCharacters ==
    /\ persist_pc = "characters"
    /\ char_rows' = {[id |-> i,
                      name |-> IF all_characters[i].name = NO_NAME THEN UNNAMED
                               ELSE all_characters[i].name,
                      is_organization |-> all_characters[i].is_organization] :
                        i \in 1..Len(all_characters)}
    /\ persist_pc' = "organizations"
    /\ UNCHANGED <<all_characters, organizations, relationships, members>>
    /\ UNCHANGED <<now, wizard_status, extraVars, storeVars, taskVars, streams, last>>

\* One Organization row per character row that is an organization.
CreateOrganizations ==
    /\ persist_pc = "organizations"
    /\ organizations' = organizations \cup {c.id : c \in {r \in char_rows : r.is_organization}}
    /\ persist_pc' = "relationships"
    /\ UNCHANGED <<all_characters, char_rows, relationships, members>>
    /\ UNCHANGED <<now, wizard_status, extraVars, storeVars, taskVars, streams, last>>

\* character_name_to_obj: the last row created under a name; 0 when none.
CharacterNamed(name) ==
    LET ids == {r.id : r \in {x \in char_rows : x.name = name}}
    IN  IF ids = {} THEN 0 ELSE CHOOSE i \in ids : \A j \in ids : j <= i

\* What a lookup of organizations among all the entities would give.
EntityNamed(name) == CharacterNamed(name)

\* organization_name_to_obj: the organization created under a name; 0 when none.
OrganizationNamed(name) ==
    LET ids == {r.id : r \in {x \in char_rows : x.name = name /\ x.is_organization}}
    IN  IF ids = {} THEN 0 ELSE CHOOSE i \in ids : \A j \in ids : j <= i

\* The relationships a character's char_data asks for.
RelationshipsData(char_data) ==
    IF char_data.relationships_array # <<>> THEN char_data.relationships_array
    ELSE char_data.relationships

\* The CharacterRelationship rows of character row c: one per relationship
\* whose target name is found among the rows created.
RelationshipsOf(c) ==
    LET q == RelationshipsData(all_characters[c.id])
    IN  {[from |-> c.id, to |-> CharacterNamed(q[k])] :
            k \in {j \in 1..Len(q) : CharacterNamed(q[j]) # 0}}

\* Third phase: the relationships of the characters that are not organizations.
CreateRelationships ==
    /\ persist_pc = "relationships"
    /\ relationships' = relationships \cup
          UNION {RelationshipsOf(c) : c \in {r \in char_rows : ~r.is_organization}}
    /\ persist_pc' = "memberships"
    /\ UNCHANGED <<all_characters, char_rows, organizations, members>>
    /\ UNCHANGED <<now, wizard_status, extraVars, storeVars, taskVars, streams, last>>

\* The OrganizationMember rows of character row c: one per membership whose
\* organization name is found among the organizations created.
MembershipsOf(c) ==
    LET q == all_characters[c.id].organization_memberships
    IN  {[organization |-> OrganizationNamed(q[k]), character |-> c.id] :
            k \in {j \in 1..Len(q) : OrganizationNamed(q[j]) # 0}}

\* Fourth phase: the memberships of the characters that are not organizations.
CreateMemberships ==
    /\ persist_pc = "memberships"
    /\ members' = members \cup
          UNION {MembershipsOf(c) : c \in {r \in char_rows : ~r.is_organization}}
    /\ persist_pc' = "commit"
    /\ UNCHANGED <<all_characters, char_rows, organizations, relationships>>
    /\ UNCHANGED <<now, wizard_status, extraVars, storeVars, taskVars, streams, last>>

\* project.character_count, commit.
CommitCharacters ==
    /\ persist_pc = "commit"
    /\ persist_pc' = "done"
    /\ characters' = Cardinality(char_rows)
    /\ UNCHANGED <<all_characters, char_rows, organizations, relationships, members>>
    /\ UNCHANGED <<now, wizard_status, extraVars, current_words, outlines, chapters, nextOutlineId,
                   nextChapterId, taskVars, streams, last>>

\* The consumer disconnects before the commit: the session is rolled back.
AbortPersist ==
    /\ persist_pc \in {"clean", "characters", "organizations", "relationships",
                       "memberships", "commit"}
    /\ persist_pc' = "aborted"
    /\ char_rows' = {}
    /\ organizations' = {}
    /\ relationships' = {}
    /\ members' = {}
    /\ UNCHANGED all_characters
    /\ UNCHANGED <<now, wizard_status, extraVars, storeVars, taskVars, streams, last>>

\* No batch is being persisted.
InitGraph ==
    /\ all_characters = <<>>
    /\ persist_pc = "idle"
    /\ char_rows = {}
    /\ organizations = {}
    /\ relationships = {}
    /\ members = {}


(***************************************************************************)
(* Default writing style of a project: api/writing_styles.py and the       *)
(* world-building stage of the wizard, api/wizard_stream.py                *)
(***************************************************************************)
\* Writing styles: style 1 is the global preset of order_index 1
\* (project_id NULL), style 2 is a custom style of project 1; style 3 is the
\* id of no row.
NO_PROJECT == 0
StyleIds == {1, 2}
RequestedStyles == StyleIds \cup {3}
StyleProject(style_id) == IF style_id = 1 THEN NO_PROJECT ELSE 1

SetDefaultIds == 1..MaxSetDefault
IdleRequest == [pc |-> "idle", project_id |-> NO_PROJECT, style_id |-> 0, deleted |-> {}]
IdleWorld == [pc |-> "idle", project_id |-> NO_PROJECT]

DefaultsOf(rows, project_id) == {d \in rows : d.project_id = project_id}

\* What the table would check without its unique constraint.
NoConstraint(rows, project_id) == FALSE

\* The unique constraint of project_default_styles on project_id: an INSERT
\* for a project that has a row is refused.
UniqueViolation(rows, project_id) == DefaultsOf(rows, project_id) # {}

\* POST /writing-styles/{style_id}/set-default, up to the DELETE statement:
\* the project and the style are checked, then the rows of the project are
\* deleted in the request's transaction.
SetDefaultBegin(r, project_id, style_id) ==
    /\ set_default[r].pc = "idle"
    /\ LET accepted == /\ project_id \in projects
                        /\ style_id \in StyleIds
                        /\ StyleProject(style_id) \in {NO_PROJECT, project_id}
       IN  set_default' = [set_default EXCEPT ![r] =
               IF accepted
               THEN [pc |-> "deleted", project_id |-> project_id, style_id |-> style_id,
                     deleted |-> DefaultsOf(default_styles, project_id)]
               ELSE [IdleRequest EXCEPT !.pc = "rejected"]]
    /\ UNCHANGED <<projects, default_styles, world>>
    /\ UNCHANGED <<now, graphVars, wizard_status, memVars, afterStyleVars, storeVars, taskVars,
                   streams, last>>

\* ... db.add(new_default), commit: the deletions and the INSERT take effect
\* together, or the INSERT is refused and the transaction is rolled back.
SetDefaultCommit(r) ==
    /\ set_default[r].pc = "deleted"
    /\ LET remaining == default_styles \ set_default[r].deleted
       IN  IF UniqueViolation(remaining, set_default[r].project_id)
           THEN /\ default_styles' = default_styles
                /\ set_default' = [set_default EXCEPT ![r].pc = "failed"]
           ELSE /\ default_styles' = remaining \cup
                       {[project_id |-> set_default[r].project_id,
                         style_id |-> set_default[r].style_id]}
                /\ set_default' = [set_default EXCEPT ![r].pc = "done"]
    /\ UNCHANGED <<projects, world>>
    /\ UNCHANGED <<now, graphVars, wizard_status, memVars, afterStyleVars, storeVars, taskVars,
                   streams, last>>

\* world_building_generator: db.add(project), commit.
WorldCreateProject ==
    /\ world.pc = "idle"
    /\ Cardinality(projects) < MaxProjects
    /\ LET id == Cardinality(projects) + 1
       IN  /\ projects' = projects \cup {id}
           /\ world' = [pc |-> "created", project_id |-> id]
    /\ UNCHANGED <<default_styles, set_default>>
    /\ UNCHANGED <<now, graphVars, wizard_status, memVars, afterStyleVars, storeVars, taskVars,
                   streams, last>>

\* ... the first global preset, if there is one, becomes the default style of
\* the new project; a refused INSERT is logged and nothing else.
WorldAssignDefault ==
    /\ world.pc = "created"
    /\ \E first_style \in {NO_PROJECT, 1} :
         default_styles' =
            IF first_style = NO_PROJECT \/ UniqueViolation(default_styles, world.project_id)
            THEN default_styles
            ELSE default_styles \cup {[project_id |-> world.project_id,
                                       style_id |-> first_style]}
    /\ world' = [world EXCEPT !.pc = "done"]
    /\ UNCHANGED <<projects, set_default>>
    /\ UNCHANGED <<now, graphVars, wizard_status, memVars, afterStyleVars, storeVars, taskVars,
                   streams, last>>

\* One project, no default style, no request.
InitStyles ==
    /\ projects = {1}
    /\ default_styles = {}
    /\ set_default = [r \in SetDefaultIds |-> IdleRequest]
    /\ world = IdleWorld

(***************************************************************************)
(* Who a request is served for: middleware/auth_middleware.py, database.py *)
(* and the dependencies of the endpoints                                   *)
(***************************************************************************)
\* request.state.user_id = None, and a request without the cookie.
NO_USER == "None"
NO_COOKIE == ""
UserIds == {"u1", "u2"}
\* The cookie is set by the client: it may name a user that does not exist.
Cookies == UserIds \cup {NO_COOKIE, "ghost"}

\* Nothing was opened or run for the request.
NOTHING == "nothing"

\* How an endpoint gets to its user: Depends(get_db), or get_db(request)
\* before the response is made; Depends(require_login); nothing at all
\* (GET /writing-styles/presets/list).  `orchestrator` says that the endpoint
\* starts a generator.
Endpoints ==
    {[name |-> "store", guard |-> "get_db", orchestrator |-> FALSE],
     [name |-> "outline_stream", guard |-> "get_db", orchestrator |-> TRUE],
     [name |-> "chapter_stream", guard |-> "get_db", orchestrator |-> TRUE],
     [name |-> "plugin_metrics", guard |-> "require_login", orchestrator |-> FALSE],
     [name |-> "preset_styles", guard |-> "none", orchestrator |-> FALSE]}

UserStatus(user_id) == IF user_id \in UserIds THEN users[user_id] ELSE "absent"

\* AuthMiddleware.dispatch: request.state.user_id is the cookie's user id if
\* that user exists and is not disabled, else None.
Dispatch(cookie) ==
    IF cookie # NO_COOKIE /\ UserStatus(cookie) = "active" THEN cookie ELSE NO_USER

\* What get_db would do if it let every request through.
GetDbAdmits(user_id) == FALSE

\* get_db: `if not user_id: raise HTTPException(status_code=401)`
GetDbRejects(user_id) == user_id = NO_USER

\* get_engine(user_id): the engine of f"ai_story_user_{user_id}.db".
EngineOf(user_id) == user_id

\* One request, from the middleware to the endpoint's dependencies and, for
\* a stream endpoint, the start of its generator.
Request(endpoint, cookie) ==
    LET user_id == Dispatch(cookie)
        rejected == \/ endpoint.guard = "get_db" /\ GetDbRejects(user_id)
                    \/ endpoint.guard = "require_login" /\ user_id = NO_USER
        opens == endpoint.guard = "get_db" /\ ~rejected
    IN  /\ engine_cache' = IF opens THEN engine_cache \cup {EngineOf(user_id)}
                                    ELSE engine_cache
        /\ response' = [endpoint |-> endpoint.name, cookie |-> cookie,
                         user_id |-> user_id,
                         status |-> IF rejected THEN 401 ELSE 200,
                         session |-> IF opens THEN EngineOf(user_id) ELSE NOTHING,
                         orchestrator |-> IF opens /\ endpoint.orchestrator
                                          THEN user_id ELSE NOTHING]
        /\ UNCHANGED <<users, afterAuthVars>>
        /\ UNCHANGED <<now, graphVars, wizard_status, memVars, styleVars, storeVars, taskVars,
                       streams, last>>

\* user_manager.create_or_update_from_linuxdo: the user signs in with the
\* trust level the identity provider reports.
SignIn(user_id, disabled) ==
    /\ users' = [users EXCEPT ![user_id] = IF disabled THEN "disabled" ELSE "active"]
    /\ UNCHANGED <<engine_cache, response, afterAuthVars>>
    /\ UNCHANGED <<now, graphVars, wizard_status, memVars, styleVars, storeVars, taskVars,
                   streams, last>>

\* user_manager.delete_user
DeleteUser(user_id) ==
    /\ users[user_id] # "absent"
    /\ users' = [users EXCEPT ![user_id] = "absent"]
    /\ UNCHANGED <<engine_cache, response, afterAuthVars>>
    /\ UNCHANGED <<now, graphVars, wizard_status, memVars, styleVars, storeVars, taskVars,
                   streams, last>>

NoResponse == [endpoint |-> "", cookie |-> NO_COOKIE, user_id |-> NO_USER, status |-> 0,
               session |-> NOTHING, orchestrator |-> NOTHING]

\* No user has signed in, no request was made.
InitAuth ==
    /\ users = [u \in UserIds |-> "absent"]
    /\ engine_cache = {}
    /\ response = NoResponse

(***************************************************************************)
(* The write lock of a user and the tasks that write: api/chapters.py      *)
(***************************************************************************)
ActorIds == 1..MaxActors

\* The tasks that write to a user's store: analyze_chapter_background, the
\* generator of generate_chapter_content_stream, get_analysis_task_status.
ActorKinds == {"worker", "stream", "status_query"}

\* How control leaves a write section.
Exits == {"normal", "exception", "cancelled"}

\* `holds`: the task has acquired the lock and not released it.  `nested`:
\* the task has called acquire while holding the lock.  `left`: how the task
\* left its last write section.
NewActor(kind) == [kind |-> kind, pc |-> "outside", holds |-> FALSE, nested |-> FALSE,
                   waited |-> FALSE, left |-> "", sections |-> 0]

\* Lock(): unlocked, nobody waits.
NewLock == [locked |-> FALSE, waiters |-> <<>>]

\* analyze_chapter_background wraps each of its writes in
\* `async with write_lock:`; the chapter stream and the status query commit
\* without it.
TakesLock(kind) == kind = "worker"

Without(waiters, a) == SelectSeq(waiters, LAMBDA w : w # a)

\* What acquire would do on a lock that knew its owner and let it in again.
ReentrantGrants(lock, a) ==
    \/ ~lock.locked /\ lock.waiters = <<>>
    \/ actors[a].holds

\* asyncio.Lock.acquire returns at once iff the lock is not locked and no
\* task waits for it; the lock does not know who holds it.
AcquireGrants(lock, a) == ~lock.locked /\ lock.waiters = <<>>

\* What a write section would do that released the lock at its end only.
ReleasesAtEnd(how) == how = "normal"

\* `async with write_lock:` releases the lock however the block is left.
ReleasesOn(how) == how \in Exits

\* A task comes to one of its writes: `async with write_lock:` for a worker,
\* nothing for the others.
BeginSection(a) ==
    /\ actors[a].pc = "outside"
    /\ actors[a].sections < MaxSections
    /\ IF ~TakesLock(actors[a].kind)
       THEN /\ actors' = [actors EXCEPT ![a].pc = "inside"]
            /\ write_lock' = write_lock
       ELSE IF AcquireGrants(write_lock, a)
       THEN /\ actors' = [actors EXCEPT ![a].pc = "inside", ![a].holds = TRUE]
            /\ write_lock' = [write_lock EXCEPT !.locked = TRUE]
       ELSE /\ actors' = [actors EXCEPT ![a].pc = "waiting", ![a].waited = TRUE]
            /\ write_lock' = [write_lock EXCEPT !.waiters = Append(@, a)]
    /\ UNCHANGED write_log
    /\ UNCHANGED notLockVars

\* release() has woken the first waiter: it takes the lock.
Wake(a) ==
    /\ actors[a].pc = "waiting"
    /\ ~write_lock.locked
    /\ write_lock.waiters # <<>>
    /\ Head(write_lock.waiters) = a
    /\ actors' = [actors EXCEPT ![a].pc = "inside", ![a].holds = TRUE]
    /\ write_lock' = [locked |-> TRUE, waiters |-> Tail(write_lock.waiters)]
    /\ UNCHANGED write_log
    /\ UNCHANGED notLockVars

\* The statements of the section: rows are changed and committed.
Write(a) ==
    /\ actors[a].pc = "inside"
    /\ actors' = [actors EXCEPT ![a].pc = "wrote"]
    /\ write_log' = [by |-> a, holding |-> actors[a].holds]
    /\ UNCHANGED write_lock
    /\ UNCHANGED notLockVars

\* Control leaves the section: at its end, by an exception of a statement or
\* of the commit, or because the task is cancelled at an await.
ExitSection(a, how) ==
    /\ actors[a].pc \in {"inside", "wrote"}
    /\ how = "normal" => actors[a].pc = "wrote"
    /\ LET released == actors[a].holds /\ ReleasesOn(how)
       IN  /\ write_lock' = IF released THEN [write_lock EXCEPT !.locked = FALSE]
                                         ELSE write_lock
           /\ actors' = [actors EXCEPT
                  ![a].pc = IF how = "cancelled" THEN "done" ELSE "outside",
                  ![a].holds = @ /\ ~released,
                  ![a].left = how,
                  ![a].sections = @ + 1]
    /\ UNCHANGED write_log
    /\ UNCHANGED notLockVars

\* A task is cancelled while it waits in acquire: it leaves the queue; if it
\* waited inside a write section of its own, that section is left too.
CancelWaiting(a) ==
    /\ actors[a].pc = "waiting"
    /\ write_lock' = [locked |-> write_lock.locked /\ ~actors[a].holds,
                      waiters |-> Without(write_lock.waiters, a)]
    /\ actors' = [actors EXCEPT ![a].pc = "done", ![a].holds = FALSE,
                                ![a].left = "cancelled"]
    /\ UNCHANGED write_log
    /\ UNCHANGED notLockVars

\* A task that holds the lock calls acquire again, as no task of the program
\* does.
Reacquire(a) ==
    /\ actors[a].pc \in {"inside", "wrote"}
    /\ actors[a].holds
    /\ ~actors[a].nested
    /\ IF AcquireGrants(write_lock, a)
       THEN /\ actors' = [actors EXCEPT ![a].nested = TRUE]
            /\ write_lock' = write_lock
       ELSE /\ actors' = [actors EXCEPT ![a].nested = TRUE, ![a].pc = "waiting",
                                        ![a].waited = TRUE]
            /\ write_lock' = [write_lock EXCEPT !.waiters = Append(@, a)]
    /\ UNCHANGED write_log
    /\ UNCHANGED notLockVars

NoWrite == [by |-> 0, holding |-> FALSE]

(***************************************************************************)
(* The context of an outline continuation on a long project:               *)
(* api/outlines.py, continue_outline_generator and                         *)
(* _build_smart_outline_context.  The outlines of the project are the      *)
(* positions 1..outline_count of the list ordered by order_index.          *)
(***************************************************************************)
MaxExisting == 30
MaxContinue == 27

SKELETON_INTERVAL == 50
RECENT_SUMMARY_COUNT == 20
RECENT_DETAIL_COUNT == 2

\* `range(0, total_count, 50)` when total_count > 50: titles only.
StorySkeleton(total_count) ==
    IF total_count > SKELETON_INTERVAL
    THEN {i \in 1..total_count : (i - 1) % SKELETON_INTERVAL = 0}
    ELSE {}

\* `latest_outlines[-recent_summary_count:-2]` when more than 2.
RecentSummary(total_count) ==
    LET recent_summary_count == Min(RECENT_SUMMARY_COUNT, total_count)
    IN  IF recent_summary_count > RECENT_DETAIL_COUNT
        THEN (total_count - recent_summary_count + 1)..(total_count - RECENT_DETAIL_COUNT)
        ELSE {}

\* `latest_outlines[-recent_detail_count:]`
RecentDetail(total_count) ==
    (total_count - Min(RECENT_DETAIL_COUNT, total_count) + 1)..total_count

\* The outlines the three parts of the context show.
SmartContext(latest_outlines) ==
    LET total_count == Cardinality(latest_outlines)
    IN  StorySkeleton(total_count) \cup RecentSummary(total_count)
            \cup RecentDetail(total_count)

IdleContinuation ==
    [pc |-> "idle", todo |-> 0, total_batches |-> 0, batch_num |-> 0,
     existing_outlines |-> {}, latest_outlines |-> {}, context |-> {},
     all_new_outlines |-> {}]

\* The list read once, before the batch loop.
ExistingOutlines(g) == g.existing_outlines

\* `select(Outline).where(project_id).order_by(order_index)` at the head of
\* every batch.
LatestOutlines(g) == 1..outline_count

\* A continuation of n chapters begins on a project that has outlines.
ContinuationBegin(n) ==
    /\ continuation.pc = "idle"
    /\ outline_count > 0
    /\ continuation' = [IdleContinuation EXCEPT
            !.pc = "build", !.todo = n,
            !.total_batches = CeilDiv(n, OUTLINE_BATCH_SIZE),
            !.existing_outlines = 1..outline_count]
    /\ UNCHANGED <<outline_count, baseVars, lockVars, afterContextVars>>

\* The head of a batch: read the list, build the context and the prompt.
ContinuationBuild ==
    /\ continuation.pc = "build"
    /\ continuation' = [continuation EXCEPT
            !.pc = "save",
            !.latest_outlines = LatestOutlines(continuation),
            !.context = SmartContext(LatestOutlines(continuation))]
    /\ UNCHANGED <<outline_count, baseVars, lockVars, afterContextVars>>

\* The rest of a batch: the reply's outlines are saved after the last one
\* and committed; the reply holds the outlines asked for, or one only.
ContinuationSave ==
    /\ continuation.pc = "save"
    /\ LET g == continuation
           remaining_chapters == g.todo - Cardinality(g.all_new_outlines)
           current_batch_size == Min(OUTLINE_BATCH_SIZE, remaining_chapters)
       IN  \E made \in {1, current_batch_size} :
              /\ made >= 1
              /\ outline_count' = outline_count + made
              /\ continuation' = [g EXCEPT
                     !.all_new_outlines = @ \cup (outline_count + 1)..(outline_count + made),
                     !.batch_num = @ + 1,
                     !.pc = IF g.batch_num + 1 < g.total_batches THEN "build" ELSE "done"]
    /\ UNCHANGED <<baseVars, lockVars, afterContextVars>>

InitContext ==
    /\ outline_count \in {1, MaxExisting}
    /\ continuation = IdleContinuation

(***************************************************************************)
(* Storage initialization of one user: database.py, get_engine and init_db *)
(***************************************************************************)
MaxCallers == 2
MaxCalls == 2

CallerIds == 1..MaxCallers
NOBODY == 0
CallKinds == {"get_engine", "init_db"}

IdleCaller == [kind |-> "get_engine", pc |-> "idle", calls |-> 0, done |-> 0]

\* Where a caller goes on when get_engine has returned the engine.
AfterGetEngine(cl) ==
    IF cl.kind = "init_db"
    THEN [cl EXCEPT !.pc = "create_all"]
    ELSE [cl EXCEPT !.pc = "idle", !.done = @ + 1]

\* A call of get_engine(user_id) or of init_db(user_id) begins.
Call(c, kind) ==
    /\ callers[c].pc = "idle"
    /\ callers[c].calls < MaxCalls
    /\ callers' = [callers EXCEPT ![c] = [@ EXCEPT !.kind = kind, !.pc = "get_engine",
                                                  !.calls = @ + 1]]
    /\ UNCHANGED <<user_lock, engine, relationship_types, writing_styles>>
    /\ UNCHANGED <<baseVars, lockVars, contextVars, afterInitVars>>

\* `if user_id in _engine_cache: return`; otherwise the user's lock is
\* looked up under _cache_lock.
GetEngineCheck(c) ==
    /\ callers[c].pc = "get_engine"
    /\ callers' = [callers EXCEPT ![c] =
            IF engine.cached THEN AfterGetEngine(@) ELSE [@ EXCEPT !.pc = "wait_lock"]]
    /\ UNCHANGED <<user_lock, engine, relationship_types, writing_styles>>
    /\ UNCHANGED <<baseVars, lockVars, contextVars, afterInitVars>>

\* `async with user_lock:` and the second look at the cache; a caller that
\* finds no engine creates one and awaits its PRAGMA statements.
GetEngineLocked(c) ==
    /\ callers[c].pc = "wait_lock"
    /\ user_lock = NOBODY
    /\ IF engine.cached
       THEN /\ callers' = [callers EXCEPT ![c] = AfterGetEngine(@)]
            /\ UNCHANGED <<user_lock, engine>>
       ELSE /\ callers' = [callers EXCEPT ![c].pc = "creating"]
            /\ user_lock' = c
            /\ engine' = [engine EXCEPT !.created = @ + 1]
    /\ UNCHANGED <<relationship_types, writing_styles>>
    /\ UNCHANGED <<baseVars, lockVars, contextVars, afterInitVars>>

\* `_engine_cache[user_id] = engine`, and the lock is left.
GetEngineCache(c) ==
    /\ callers[c].pc = "creating"
    /\ engine' = [engine EXCEPT !.cached = TRUE]
    /\ user_lock' = NOBODY
    /\ callers' = [callers EXCEPT ![c] = AfterGetEngine(@)]
    /\ UNCHANGED <<relationship_types, writing_styles>>
    /\ UNCHANGED <<baseVars, lockVars, contextVars, afterInitVars>>

\* init_db: `conn.run_sync(Base.metadata.create_all)`
CreateAll(c) ==
    /\ callers[c].pc = "create_all"
    /\ callers' = [callers EXCEPT ![c].pc = "types_select"]
    /\ UNCHANGED <<user_lock, engine, relationship_types, writing_styles>>
    /\ UNCHANGED <<baseVars, lockVars, contextVars, afterInitVars>>

\* _init_relationship_types: `select(RelationshipType)`, `if existing: return`.
TypesSelect(c) ==
    /\ callers[c].pc = "types_select"
    /\ callers' = [callers EXCEPT ![c].pc =
            IF relationship_types > 0 THEN "styles_select" ELSE "types_commit"]
    /\ UNCHANGED <<user_lock, engine, relationship_types, writing_styles>>
    /\ UNCHANGED <<baseVars, lockVars, contextVars, afterInitVars>>

\* ... one row per preset type is added, commit.
TypesCommit(c) ==
    /\ callers[c].pc = "types_commit"
    /\ relationship_types' = relationship_types + 1
    /\ callers' = [callers EXCEPT ![c].pc = "styles_select"]
    /\ UNCHANGED <<user_lock, engine, writing_styles>>
    /\ UNCHANGED <<baseVars, lockVars, contextVars, afterInitVars>>

\* _init_global_writing_styles: `select(WritingStyle).where(project_id IS
\* NULL)`, `if existing: return`; init_db then returns.
StylesSelect(c) ==
    /\ callers[c].pc = "styles_select"
    /\ callers' = [callers EXCEPT ![c] =
            IF writing_styles > 0
            THEN [@ EXCEPT !.pc = "idle", !.done = @ + 1]
            ELSE [@ EXCEPT !.pc = "styles_commit"]]
    /\ UNCHANGED <<user_lock, engine, relationship_types, writing_styles>>
    /\ UNCHANGED <<baseVars, lockVars, contextVars, afterInitVars>>

\* ... one row per preset style is added, commit; init_db returns.
StylesCommit(c) ==
    /\ callers[c].pc = "styles_commit"
    /\ writing_styles' = writing_styles + 1
    /\ callers' = [callers EXCEPT ![c] = [@ EXCEPT !.pc = "idle", !.done = @ + 1]]
    /\ UNCHANGED <<user_lock, engine, relationship_types>>
    /\ UNCHANGED <<baseVars, lockVars, contextVars, afterInitVars>>

\* A user whose store has not been opened.
InitStorage ==
    /\ callers = [c \in CallerIds |-> IdleCaller]
    /\ user_lock = NOBODY
    /\ engine = [created |-> 0, cached |-> FALSE]
    /\ relationship_types = 0
    /\ writing_styles = 0

(***************************************************************************)
(* Sessions of requests: database.py, get_db, and the two sessions of      *)
(* generate_chapter_content_stream in api/chapters.py.  A consumer that    *)
(* disconnects is seen by the generator as GeneratorExit where it is       *)
(* suspended.                                                              *)
(***************************************************************************)
MaxRequests == 2

RequestIds == 1..Len(requests)
RequestKinds == {"dependency", "chapter_stream"}
ExitPaths == {"normal", "exception", "disconnect"}

\* `session` is the session the request uses, `abandoned` the number of
\* get_db generators it left suspended at their yield.
NewRequest(kind) ==
    [kind |-> kind, pc |-> IF kind = "dependency" THEN "handler" ELSE "temp",
     session |-> "open", in_transaction |-> FALSE, pending |-> FALSE,
     db_committed |-> FALSE, rolled_back |-> FALSE, abandoned |-> 0, exit |-> ""]

\* get_db up to `yield session`.
SessionCreated == [session_stats EXCEPT !.created = @ + 1, !.active = @ + 1]

\* get_db, `finally`: session.close() and the counters.
SessionClosed == [session_stats EXCEPT !.closed = @ + 1, !.active = @ - 1]

\* An exit path that leaves the session open when the consumer has gone.
ClosesUnlessDisconnected(how) == how # "disconnect"

\* event_generator, `finally: if db_session: ... await db_session.close()`:
\* whatever way the generator is left.
ClosesOn(how) == how \in ExitPaths

\* A request arrives: Depends(get_db), or `async for temp_db in get_db(request)`.
OpenRequest(kind) ==
    /\ Len(requests) < MaxRequests
    /\ requests' = Append(requests, NewRequest(kind))
    /\ session_stats' = SessionCreated
    /\ UNCHANGED <<baseVars, lockVars, contextVars, initVars>>

\* The request executes a statement; a write is flushed and not committed.
Statement(r, writes) ==
    /\ requests[r].pc \in {"handler", "generator"}
    /\ writes => ~requests[r].pending
    /\ ~writes => ~requests[r].in_transaction
    /\ requests' = [requests EXCEPT ![r].in_transaction = TRUE,
                                     ![r].pending = @ \/ writes]
    /\ UNCHANGED <<session_stats, baseVars, lockVars, contextVars, initVars>>

\* `await db.commit()`
CommitRequest(r) ==
    /\ requests[r].pc \in {"handler", "generator"}
    /\ requests[r].pending
    /\ requests' = [requests EXCEPT ![r].in_transaction = FALSE, ![r].pending = FALSE,
                                     ![r].db_committed = TRUE]
    /\ UNCHANGED <<session_stats, baseVars, lockVars, contextVars, initVars>>

\* The endpoint returns or raises: get_db is resumed after its yield, rolls
\* back an open transaction and, in `finally`, closes the session.
DependencyExit(r, how) ==
    /\ requests[r].pc = "handler"
    /\ how \in {"normal", "exception"}
    /\ requests' = [requests EXCEPT ![r] =
            [@ EXCEPT !.pc = "done", !.session = "closed", !.in_transaction = FALSE,
                      !.pending = FALSE, !.rolled_back = requests[r].in_transaction,
                      !.exit = how]]
    /\ session_stats' = SessionClosed
    /\ UNCHANGED <<baseVars, lockVars, contextVars, initVars>>

\* generate_chapter_content_stream before the response: the chapter is read
\* and checked, `finally: await temp_db.close()`, then `break`, or the
\* HTTPException goes on; get_db stays suspended at its yield.
TempExit(r, found) ==
    /\ requests[r].pc = "temp"
    /\ requests' = [requests EXCEPT ![r] =
            [@ EXCEPT !.pc = IF found THEN "open_generator" ELSE "finalize",
                      !.session = "closed", !.abandoned = @ + 1,
                      !.exit = IF found THEN "" ELSE "exception"]]
    /\ UNCHANGED <<session_stats, baseVars, lockVars, contextVars, initVars>>

\* event_generator: `async for db_session in get_db(request)`.
GeneratorOpen(r) ==
    /\ requests[r].pc = "open_generator"
    /\ requests' = [requests EXCEPT ![r].pc = "generator", ![r].session = "open"]
    /\ session_stats' = SessionCreated
    /\ UNCHANGED <<baseVars, lockVars, contextVars, initVars>>

\* event_generator is left by `break` or `return`, by an exception, or by
\* GeneratorExit: rollback of a transaction that is not committed, then
\* `finally`, which closes the session; get_db stays suspended at its yield.
GeneratorLeft(r, how) ==
    /\ requests[r].pc = "generator"
    /\ how \in ExitPaths
    /\ requests' = [requests EXCEPT ![r] =
            IF ClosesOn(how)
            THEN [@ EXCEPT !.pc = "finalize", !.session = "closed",
                           !.in_transaction = FALSE, !.pending = FALSE,
                           !.rolled_back = requests[r].in_transaction,
                           !.abandoned = @ + 1, !.exit = how]
            ELSE [@ EXCEPT !.pc = "finalize", !.abandoned = @ + 1, !.exit = how]]
    /\ UNCHANGED <<session_stats, baseVars, lockVars, contextVars, initVars>>

\* The event loop closes a get_db generator nobody holds any more: get_db
\* sees GeneratorExit at its yield and runs its `finally`.
Finalize(r) ==
    /\ requests[r].abandoned > 0
    /\ requests' = [requests EXCEPT ![r] =
            [@ EXCEPT !.abandoned = @ - 1,
                      !.pc = IF requests[r].pc = "finalize" /\ requests[r].abandoned = 1
                             THEN "done" ELSE @]]
    /\ session_stats' = SessionClosed
    /\ UNCHANGED <<baseVars, lockVars, contextVars, initVars>>

\* The lock of a user whose tasks have not begun; the tasks are of any kind.
InitLock ==
    /\ write_lock = NewLock
    /\ actors \in [ActorIds -> {NewActor(kind) : kind \in ActorKinds}]
    /\ write_log = NoWrite

\* The lock of a user, with background workers only.
InitWorkersLock ==
    /\ write_lock = NewLock
    /\ actors = [a \in ActorIds |-> NewActor("worker")]
    /\ write_log = NoWrite

\* No chapter has been analysed.
InitMemories ==
    /\ story_memories = {}
    /\ analysis_result = [t \in 1..MaxTaskRows |-> NoAnalysis]

\* A project with one outline and no continuation.
InitShortProject ==
    /\ outline_count = 1
    /\ continuation = IdleContinuation

InitNoLock == InitMemories /\ InitStyles /\ InitAuth

\* No request is being served.
InitSessions ==
    /\ requests = <<>>
    /\ session_stats = [created |-> 0, closed |-> 0, active |-> 0]

InitAfterContext == InitStorage /\ InitSessions

InitAfterLock == InitShortProject /\ InitAfterContext

InitExtra == InitNoLock /\ InitWorkersLock /\ InitAfterLock

InitExt == InitGraph /\ wizard_status = "incomplete" /\ InitExtra

(***************************************************************************)
(* Specification of the AnalysisTask life cycle.                           *)
(***************************************************************************)
\* A project with one written chapter, paired with its outline.
InitProject ==
    /\ now = 0
    /\ tasks = <<>>
    /\ creating = {}
    /\ scheduled = {}
    /\ workers = [t \in 1..MaxTaskRows |-> IdleWorker]
    /\ analyses = {}
    /\ streams = <<>>
    /\ last = NoOp
    /\ outlines = {[id |-> 1, order_index |-> 1]}
    /\ chapters = {[id |-> 1, chapter_number |-> 1, title |-> 1, content |-> <<"x">>,
                    word_count |-> 1]}
    /\ current_words = 1
    /\ nextOutlineId = 2
    /\ nextChapterId = 2
    /\ characters = 0
    /\ InitGraph
    /\ wizard_status = "incomplete"
    /\ InitNoLock

InitTask == InitProject /\ InitWorkersLock /\ InitAfterLock

\* The same project, with tasks of every kind about to write.
InitActors == InitProject /\ InitLock /\ InitAfterLock

NextTask ==
    \/ \E c \in ChapterIds : TriggerAnalysis(c)
    \/ \E t \in 1..MaxTaskRows : TriggerSchedule(t)
    \/ \E t \in 1..MaxTaskRows : WorkerLoad(t)
    \/ \E t \in TaskIds : WorkerSetRunning(t)
    \/ \E t \in TaskIds : WorkerReadChapter(t)
    \/ \E t \in TaskIds : WorkerAnalyze(t)
    \/ \E t \in TaskIds : WorkerSaveAnalysis(t)
    \/ \E t \in TaskIds : WorkerSaveMemories(t)
    \/ \E t \in TaskIds : WorkerAddMemories(t)
    \/ \E t \in TaskIds : WorkerVectorAdd(t)
    \/ \E t \in TaskIds : WorkerComplete(t)
    \/ \E t \in TaskIds : WorkerHandler(t)
    \/ \E c \in ChapterIds : StatusQuery(c)
    \/ \E c \in ChapterIds : DeleteChapter(c)
    \/ Tick

SpecTask == InitTask /\ [][NextTask]_vars

(***************************************************************************)
(* Specification of the analysis of a chapter that is analysed again.      *)
(***************************************************************************)
\* The clock stands still, so no status query recovers a task.
NextMemory ==
    \/ \E c \in ChapterIds : TriggerAnalysisUpTo(c, MaxAnalyses)
    \/ \E t \in TaskIds : TriggerSchedule(t)
    \/ \E t \in TaskIds : WorkerLoad(t)
    \/ \E t \in TaskIds : WorkerSetRunning(t)
    \/ \E t \in TaskIds : WorkerReadChapter(t)
    \/ \E t \in TaskIds : WorkerAnalyze(t)
    \/ \E t \in TaskIds : WorkerSaveAnalysis(t)
    \/ \E t \in TaskIds : WorkerSaveMemories(t)
    \/ \E t \in TaskIds : WorkerAddMemories(t)
    \/ \E t \in TaskIds : WorkerVectorAdd(t)
    \/ \E t \in TaskIds : WorkerComplete(t)
    \/ \E t \in TaskIds : WorkerHandler(t)

SpecMemory == InitTask /\ [][NextMemory]_vars

(***************************************************************************)
(* Specification of the default style of a project.                        *)
(***************************************************************************)
NextStyle ==
    \/ \E r \in SetDefaultIds : \E project_id \in 1..MaxProjects :
          \E style_id \in RequestedStyles : SetDefaultBegin(r, project_id, style_id)
    \/ \E r \in SetDefaultIds : SetDefaultCommit(r)
    \/ WorldCreateProject
    \/ WorldAssignDefault

SpecStyle == InitTask /\ [][NextStyle]_vars

(***************************************************************************)
(* Specification of the requests of users that sign in, are disabled and   *)
(* are deleted.                                                            *)
(***************************************************************************)
NextAuth ==
    \/ \E endpoint \in Endpoints : \E cookie \in Cookies : Request(endpoint, cookie)
    \/ \E user_id \in UserIds : \E disabled \in BOOLEAN : SignIn(user_id, disabled)
    \/ \E user_id \in UserIds : DeleteUser(user_id)

SpecAuth == InitTask /\ [][NextAuth]_vars

(***************************************************************************)
(* Specifications of the write lock: the tasks of the program; the same    *)
(* under fair scheduling; and tasks that may acquire the lock again.       *)
(***************************************************************************)
NextLock ==
    \/ \E a \in ActorIds : BeginSection(a)
    \/ \E a \in ActorIds : Wake(a)
    \/ \E a \in ActorIds : Write(a)
    \/ \E a \in ActorIds : \E how \in Exits : ExitSection(a, how)
    \/ \E a \in ActorIds : CancelWaiting(a)

SpecLock == InitActors /\ [][NextLock]_vars

\* A task inside a section goes on, and the event loop runs a woken waiter.
SpecLockFair ==
    /\ SpecLock
    /\ \A a \in ActorIds : /\ WF_vars(Wake(a))
                             /\ WF_vars(Write(a) \/ \E how \in Exits : ExitSection(a, how))

NextLockAgain ==
    \/ NextLock
    \/ \E a \in ActorIds : Reacquire(a)

SpecLockAgain == InitActors /\ [][NextLockAgain]_vars

\* A long continuation on a project with one outline or with many.
InitLong == InitProject /\ InitWorkersLock /\ InitContext /\ InitAfterContext

NextContext ==
    \/ \E n \in 1..MaxContinue : ContinuationBegin(n)
    \/ ContinuationBuild
    \/ ContinuationSave

SpecContext == InitLong /\ [][NextContext]_vars

NextStorage ==
    \/ \E c \in CallerIds : \E kind \in CallKinds : Call(c, kind)
    \/ \E c \in CallerIds : GetEngineCheck(c)
    \/ \E c \in CallerIds : GetEngineLocked(c)
    \/ \E c \in CallerIds : GetEngineCache(c)
    \/ \E c \in CallerIds : CreateAll(c)
    \/ \E c \in CallerIds : TypesSelect(c)
    \/ \E c \in CallerIds : TypesCommit(c)
    \/ \E c \in CallerIds : StylesSelect(c)
    \/ \E c \in CallerIds : StylesCommit(c)

SpecStorage == InitTask /\ [][NextStorage]_vars

NextSessions ==
    \/ \E kind \in RequestKinds : OpenRequest(kind)
    \/ \E r \in RequestIds : \E writes \in BOOLEAN : Statement(r, writes)
    \/ \E r \in RequestIds : CommitRequest(r)
    \/ \E r \in RequestIds : \E how \in ExitPaths : DependencyExit(r, how)
    \/ \E r \in RequestIds : \E found \in BOOLEAN : TempExit(r, found)
    \/ \E r \in RequestIds : GeneratorOpen(r)
    \/ \E r \in RequestIds : \E how \in ExitPaths : GeneratorLeft(r, how)
    \/ \E r \in RequestIds : Finalize(r)

SpecSessions == InitTask /\ [][NextSessions]_vars

(***************************************************************************)
(* Specification of sequential outline and chapter operations: one request *)
(* at a time, every stream read to its end.                                *)
(***************************************************************************)
\* A new project.
InitStore ==
    /\ now = 0
    /\ tasks = <<>>
    /\ creating = {}
    /\ scheduled = {}
    /\ workers = [t \in 1..MaxTaskRows |-> IdleWorker]
    /\ analyses = {}
    /\ streams = <<>>
    /\ last = NoOp
    /\ outlines = {}
    /\ chapters = {}
    /\ current_words = 0
    /\ nextOutlineId = 1
    /\ nextChapterId = 1
    /\ characters = 0
    /\ InitExt

\* No generator is running.
Quiet == \A s \in StreamIds : streams[s].pc = "end"

\* The next stream is opened when the one before has ended.
CanServe == Quiet /\ Len(streams) < MaxServed

\* The values of chapter_count that give one batch and two batches.
ChapterCounts == {1, OUTLINE_BATCH_SIZE + 1}

NextStore ==
    \/ Quiet /\ \E n \in 1..MaxIdx : \E c \in Texts \cup {NULL} : CreateChapter(n, c)
    \/ Quiet /\ \E id \in ChapterIds : \E c \in Texts \cup {NULL} : UpdateChapter(id, c)
    \/ Quiet /\ \E id \in ChapterIds : DeleteChapter(id)
    \/ Quiet /\ \E n \in 1..MaxIdx : CreateOutline(n)
    \/ Quiet /\ \E id \in OutlineIds : DeleteOutline(id)
    \/ Quiet /\ \E req \in ReorderRequests : ReorderOutlines(req)
    \/ CanServe /\ \E c \in ChapterIds : OpenChapterStream(c)
    \/ CanServe /\ OpenOutlineNew
    \/ CanServe /\ \E n \in ChapterCounts : OpenOutlineContinue(n)
    \/ \E s \in StreamIds : GenStart(s)
    \/ \E s \in StreamIds : GenChunk(s)
    \/ \E s \in StreamIds : GenFail(s)
    \/ \E s \in StreamIds : GenCommit(s)
    \/ \E s \in StreamIds : GenCreateTask(s)
    \/ \E s \in StreamIds : GenDone(s)
    \/ \E s \in StreamIds : GenAnalysisStarted(s)
    \/ \E s \in StreamIds : NewBegin(s)
    \/ \E s \in StreamIds : NewGenerate(s)
    \/ \E s \in StreamIds : NewFail(s)
    \/ \E s \in StreamIds : NewClean(s)
    \/ \E s \in StreamIds : NewSave(s)
    \/ \E s \in StreamIds : ContBegin(s)
    \/ \E s \in StreamIds : ContPrePass(s)
    \/ \E s \in StreamIds : ContGenerate(s)
    \/ \E s \in StreamIds : ContFail(s)
    \/ \E s \in StreamIds : ContSave(s)
    \/ \E s \in StreamIds : ContFinalize(s)
    \/ \E s \in StreamIds : EmitResult(s)
    \/ \E s \in StreamIds : EmitProgress100(s)
    \/ \E s \in StreamIds : EmitDone(s)
    \/ \E s \in StreamIds : StreamFinish(s)

SpecStore == InitStore /\ [][NextStore]_vars

(***************************************************************************)
(* Specification of outline numbering: the requests that create, delete    *)
(* and renumber outlines and chapters, served one at a time on a new       *)
(* project.                                                                *)
(***************************************************************************)
NextOrder ==
    \/ \E n \in 1..MaxIdx : CreateChapter(n, <<"x">>)
    \/ \E id \in ChapterIds : DeleteChapter(id)
    \/ \E n \in 1..MaxIdx : CreateOutline(n)
    \/ \E id \in OutlineIds : DeleteOutline(id)
    \/ \E req \in ReorderRequests : ReorderOutlines(req)

SpecOrder == InitStore /\ [][NextOrder]_vars

(***************************************************************************)
(* Specification of concurrent SSE streams whose consumers may disconnect. *)
(***************************************************************************)
\* A project of two outlined chapters, the first one written.  Their rows were
\* created before the behaviour begins, with ids outside the fresh range.
InitGen ==
    /\ now = 0
    /\ tasks = <<>>
    /\ creating = {}
    /\ scheduled = {}
    /\ workers = [t \in 1..MaxTaskRows |-> IdleWorker]
    /\ analyses = {}
    /\ streams = <<>>
    /\ last = NoOp
    /\ outlines = {[id |-> MaxIds + 1, order_index |-> 1],
                   [id |-> MaxIds + 2, order_index |-> 2]}
    /\ chapters = {[id |-> MaxIds + 1, chapter_number |-> 1, title |-> MaxIds + 1,
                    content |-> <<"x">>, word_count |-> 1],
                   DraftChapter(MaxIds + 2, 2, MaxIds + 2)}
    /\ current_words = 1
    /\ nextOutlineId = 1
    /\ nextChapterId = 1
    /\ characters = 0
    /\ InitExt

\* A stream is opened whatever the others are doing.
CanOpen == Len(streams) < MaxConcurrent

\* The values of count that give one batch and two batches.
CharacterCounts == {1, WIZARD_BATCH_SIZE + 1}

(***************************************************************************)
(* Specification of the prerequisite check: chapters are created under any *)
(* number the request gives (ChapterCreate puts no bound on it), edited    *)
(* and deleted, and generate-stream requests are made at any time.         *)
(***************************************************************************)
NextPre ==
    \/ \E n \in 0..MaxIdx : \E c \in Texts \cup {NULL} : CreateChapter(n, c)
    \/ \E id \in ChapterIds : \E c \in Texts \cup {NULL} : UpdateChapter(id, c)
    \/ \E id \in ChapterIds : DeleteChapter(id)
    \/ CanOpen /\ \E c \in ChapterIds : OpenChapterStream(c)

SpecPre == InitStore /\ [][NextPre]_vars

NextGen ==
    \/ CanOpen /\ \E c \in ChapterIds : OpenChapterStream(c)
    \/ CanOpen /\ OpenOutlineNew
    \/ \E s \in StreamIds : GenStart(s)
    \/ \E s \in StreamIds : GenChunk(s)
    \/ \E s \in StreamIds : GenFail(s)
    \/ \E s \in StreamIds : GenCommit(s)
    \/ \E s \in StreamIds : GenCreateTask(s)
    \/ \E s \in StreamIds : GenDone(s)
    \/ \E s \in StreamIds : GenAnalysisStarted(s)
    \/ \E s \in StreamIds : NewBegin(s)
    \/ \E s \in StreamIds : NewGenerate(s)
    \/ \E s \in StreamIds : NewFail(s)
    \/ \E s \in StreamIds : NewClean(s)
    \/ \E s \in StreamIds : NewSave(s)
    \/ \E s \in StreamIds : EmitResult(s)
    \/ \E s \in StreamIds : EmitProgress100(s)
    \/ \E s \in StreamIds : EmitDone(s)
    \/ \E s \in StreamIds : StreamFinish(s)
    \/ \E s \in StreamIds : Close(s)
    \/ \E s \in StreamIds : HandleExit(s)

SpecGen == InitGen /\ [][NextGen]_vars

(***************************************************************************)
(* Specification of the event protocol: streams of every kind, served one  *)
(* at a time, whose consumer may disconnect.                               *)
(***************************************************************************)
NextSse ==
    \/ CanServe /\ \E c \in ChapterIds : OpenChapterStream(c)
    \/ CanServe /\ OpenOutlineNew
    \/ CanServe /\ \E n \in ChapterCounts : OpenOutlineContinue(n)
    \/ CanServe /\ \E n \in CharacterCounts : OpenWizard(n)
    \/ \E s \in StreamIds : GenStart(s)
    \/ \E s \in StreamIds : GenChunk(s)
    \/ \E s \in StreamIds : GenFail(s)
    \/ \E s \in StreamIds : GenCommit(s)
    \/ \E s \in StreamIds : GenCreateTask(s)
    \/ \E s \in StreamIds : GenDone(s)
    \/ \E s \in StreamIds : GenAnalysisStarted(s)
    \/ \E s \in StreamIds : NewBegin(s)
    \/ \E s \in StreamIds : NewGenerate(s)
    \/ \E s \in StreamIds : NewFail(s)
    \/ \E s \in StreamIds : NewClean(s)
    \/ \E s \in StreamIds : NewSave(s)
    \/ \E s \in StreamIds : ContBegin(s)
    \/ \E s \in StreamIds : ContPrePass(s)
    \/ \E s \in StreamIds : ContGenerate(s)
    \/ \E s \in StreamIds : ContFail(s)
    \/ \E s \in StreamIds : ContSave(s)
    \/ \E s \in StreamIds : ContFinalize(s)
    \/ \E s \in StreamIds : WizBegin(s)
    \/ \E s \in StreamIds : WizAttempt(s)
    \/ \E s \in StreamIds : WizChunk(s)
    \/ \E s \in StreamIds : WizParse(s)
    \/ \E s \in StreamIds : WizPersist(s)
    \/ \E s \in StreamIds : WizCommit(s)
    \/ \E s \in StreamIds : EmitResult(s)
    \/ \E s \in StreamIds : EmitProgress100(s)
    \/ \E s \in StreamIds : EmitDone(s)
    \/ \E s \in StreamIds : StreamFinish(s)
    \/ \E s \in StreamIds : Close(s)
    \/ \E s \in StreamIds : HandleExit(s)

SpecSse == InitGen /\ [][NextSse]_vars

(***************************************************************************)
(* Specification of the wizard: the character stage and the outline stage  *)
(* of a new project, one request at a time, with disconnects.              *)
(***************************************************************************)
NextWizard ==
    \/ CanServe /\ \E n \in CharacterCounts : OpenWizard(n)
    \/ CanServe /\ OpenWizardOutline
    \/ \E s \in StreamIds : WizBegin(s)
    \/ \E s \in StreamIds : WizAttempt(s)
    \/ \E s \in StreamIds : WizChunk(s)
    \/ \E s \in StreamIds : WizParse(s)
    \/ \E s \in StreamIds : WizPersist(s)
    \/ \E s \in StreamIds : WizCommit(s)
    \/ \E s \in StreamIds : WoBegin(s)
    \/ \E s \in StreamIds : WoAttempt(s)
    \/ \E s \in StreamIds : WoChunk(s)
    \/ \E s \in StreamIds : WoParse(s)
    \/ \E s \in StreamIds : WoPersist(s)
    \/ \E s \in StreamIds : EmitProgress100(s)
    \/ \E s \in StreamIds : EmitDone(s)
    \/ \E s \in StreamIds : StreamFinish(s)
    \/ \E s \in StreamIds : Close(s)
    \/ \E s \in StreamIds : HandleExit(s)

SpecWizard == InitStore /\ [][NextWizard]_vars

\* A step of a generator that its consumer is reading.
GeneratorStep ==
    \E s \in StreamIds :
        \/ WizBegin(s) \/ WizAttempt(s) \/ WizChunk(s) \/ WizParse(s)
        \/ WizPersist(s) \/ WizCommit(s)
        \/ WoBegin(s) \/ WoAttempt(s) \/ WoChunk(s) \/ WoParse(s) \/ WoPersist(s)
        \/ EmitProgress100(s) \/ EmitDone(s) \/ StreamFinish(s) \/ HandleExit(s)

\* The server goes on running a generator while there is one to run, and
\* the model's replies end.
SpecWizardFair == SpecWizard /\ WF_vars(GeneratorStep)

(***************************************************************************)
(* Specification of the persistence of a character batch: the batch loop   *)
(* of characters_generator has ended with any batch, on a new project.     *)
(***************************************************************************)
InitChars ==
    /\ now = 0
    /\ tasks = <<>>
    /\ creating = {}
    /\ scheduled = {}
    /\ workers = [t \in 1..MaxTaskRows |-> IdleWorker]
    /\ analyses = {}
    /\ streams = <<>>
    /\ last = NoOp
    /\ outlines = {}
    /\ chapters = {}
    /\ current_words = 0
    /\ nextOutlineId = 1
    /\ nextChapterId = 1
    /\ characters = 0
    /\ all_characters \in Batches
    /\ persist_pc = "clean"
    /\ char_rows = {}
    /\ organizations = {}
    /\ relationships = {}
    /\ members = {}
    /\ wizard_status = "incomplete"
    /\ InitExtra

NextChars ==
    \/ CleanReferences
    \/ CreateCharacters
    \/ CreateOrganizations
    \/ CreateRelationships
    \/ CreateMemberships
    \/ CommitCharacters
    \/ AbortPersist

SpecChars == InitChars /\ [][NextChars]_vars

(***************************************************************************)
(* Claims about the AnalysisTask life cycle.                               *)
(***************************************************************************)
Terminal == {"completed", "failed"}

\* C1: once an AnalysisTask has status completed or failed, no later step
\* (worker step, worker error handler, status query) changes its status.
C1_TerminalAbsorbing ==
    [][\A t \in TaskIds :
          tasks[t].status \in Terminal => tasks'[t].status = tasks[t].status]_vars

\* C2 (as stated): a status query on the chapter of a task that has been running
\* for at least 60 s, or pending for at least 120 s, leaves that task failed.
C2_RecoverAtThreshold ==
    [][\A c \in ChapterIds : \A t \in TaskIds :
          ( /\ StatusQuery(c)
            /\ tasks[t].chapter = c
            /\ \/ /\ tasks[t].status = "running"
                  /\ now - tasks[t].started_at >= ANALYSIS_RUNNING_TIMEOUT
               \/ /\ tasks[t].status = "pending"
                  /\ now - tasks[t].created_at >= ANALYSIS_PENDING_TIMEOUT )
          => tasks'[t].status = "failed"]_vars

\* C2 (amended): a status query that selects a task (the most recently created
\* task of the queried chapter) which has been running for MORE than 60 s, or
\* pending for MORE than 120 s, leaves that task failed and reports the recovery.
C2_RecoverPastThreshold ==
    [][\A c \in ChapterIds : \A t \in TaskIds :
          ( /\ StatusQuery(c)
            /\ last'.arg = t
            /\ \/ /\ tasks[t].status = "running"
                  /\ now - tasks[t].started_at > ANALYSIS_RUNNING_TIMEOUT
               \/ /\ tasks[t].status = "pending"
                  /\ now - tasks[t].created_at > ANALYSIS_PENDING_TIMEOUT )
          => tasks'[t].status = "failed" /\ last'.recovered]_vars

\* C2 witness: a status query has just recovered a task that was still running.
C2_Witness ==
    /\ last.op = "status_query"
    /\ last.recovered
    /\ tasks[last.arg].status = "failed"
    /\ tasks[last.arg].started_at >= 0
    /\ now - tasks[last.arg].started_at > ANALYSIS_RUNNING_TIMEOUT

(***************************************************************************)
(* Claims about concurrent streams and disconnects.                        *)
(***************************************************************************)
RECURSIVE SumWordCount(_)
SumWordCount(S) ==
    IF S = {} THEN 0
    ELSE LET c == CHOOSE x \in S : TRUE
         IN  c.word_count + SumWordCount(S \ {c})

\* C3: once concurrent chapter generate streams for different chapters of the
\* project have all committed, Project.current_words holds the word-count
\* change of every one of them, so it is again the sum of the word counts.
C3_NoLostWrite ==
    (/\ Len(streams) >= 2
     /\ \A s \in StreamIds : streams[s].kind = "chapter" /\ streams[s].db_committed
     /\ \A s, t \in StreamIds : s # t => streams[s].chapter # streams[t].chapter)
    => current_words = SumWordCount(chapters)

\* C4: once the consumer has closed a stream, no step of the generator serving
\* it changes the store, the task rows or the scheduled workers.
C4_NoCommitAfterClose ==
    [][\A s \in StreamIds :
          (streams[s].closed /\ streams'[s] # streams[s])
          => UNCHANGED <<storeVars, tasks, creating, scheduled>>]_vars

\* C4 witness: a closed new-mode outline stream whose DELETEs were rolled
\* back, the outlines and chapters still in the store.
C4_Witness ==
    \E s \in StreamIds :
        /\ streams[s].pc = "end"
        /\ streams[s].closed
        /\ streams[s].rolled_back
        /\ outlines # {}
        /\ chapters # {}

\* C5: a chapter generate stream closed by its consumer has created no
\* AnalysisTask row and scheduled no analysis worker.
C5_CancelledSpawnsNothing ==
    \A s \in StreamIds :
        (streams[s].kind = "chapter" /\ streams[s].closed)
        => /\ streams[s].task = 0
           /\ \A t \in TaskIds : t \notin scheduled

(***************************************************************************)
(* Claims about the event protocol.                                        *)
(***************************************************************************)
\* Positions of event type ev in the log of stream s.
Positions(s, ev) == {i \in 1..Len(streams[s].events) : streams[s].events[i] = ev}

\* The stream has finished successfully: done was sent, error was not.
Succeeded(s) == Positions(s, "done") # {} /\ Positions(s, "error") = {}

\* Exactly one result event on stream s, sent before done.
OneResultBeforeDone(s) ==
    /\ Cardinality(Positions(s, "result")) = 1
    /\ \A i \in Positions(s, "result") : \A j \in Positions(s, "done") : i < j

C7_TerminalIsLast ==
    \A s \in StreamIds :
        \A i, j \in 1..Len(streams[s].events) :
            (i < j /\ streams[s].events[i] \in {"done", "error"})
            => /\ streams[s].events[i] = "error"
               /\ streams[s].events[j] = "done"
               /\ j = i + 1

\* C7 (amended): nothing is sent after error; nothing is sent after done,
\* except that a chapter generate stream sends one analysis_started event
\* right after its done and nothing after that.
C7_TerminalThenAnalysisStarted ==
    \A s \in StreamIds :
        \A i, j \in 1..Len(streams[s].events) :
            (i < j /\ streams[s].events[i] \in {"done", "error"})
            => /\ streams[s].events[i] = "done"
               /\ streams[s].kind = "chapter"
               /\ streams[s].events[j] = "analysis_started"
               /\ j = i + 1
               /\ j = Len(streams[s].events)

\* C7 witness: a chapter generate stream has sent done, then analysis_started.
C7_Witness ==
    \E s \in StreamIds :
        /\ streams[s].kind = "chapter"
        /\ Len(streams[s].events) >= 2
        /\ streams[s].events[Len(streams[s].events) - 1] = "done"
        /\ streams[s].events[Len(streams[s].events)] = "analysis_started"

(***************************************************************************)
(* Claims about the outline / chapter store.                               *)
(***************************************************************************)
\* len(content), None counting as no text.
ContentLen(c) == IF c = NULL THEN 0 ELSE StrLen(c)

RECURSIVE SumContentLen(_)
SumContentLen(S) ==
    IF S = {} THEN 0
    ELSE LET c == CHOOSE x \in S : TRUE
         IN  ContentLen(c.content) + SumContentLen(S \ {c})

\* C8: after any sequence of outline and chapter operations the set of
\* chapter_number values equals the set of order_index values.
C8_NumbersMatch ==
    {c.chapter_number : c \in chapters} = {o.order_index : o \in outlines}

\* C9: after any sequence of operations served one at a time,
\* Project.current_words is the sum of len(content) over the chapters.
C9_WordsMatch == current_words = SumContentLen(chapters)

\* The order_index values are exactly 1..N for the N outlines.
Contiguous(outs) == {o.order_index : o \in outs} = 1..Cardinality(outs)

\* C10: a reorder request on outlines numbered 1..N leaves them numbered 1..N.
C10_ReorderKeepsRange ==
    [][(Contiguous(outlines) /\ \E req \in ReorderRequests : ReorderOutlines(req))
       => Contiguous(outlines')]_vars

(***************************************************************************)
(* Claims about outline numbering.                                         *)
(***************************************************************************)
\* C11: deleting an outline of a project whose outlines are numbered 1..N
\* leaves the remaining outlines numbered 1..N-1.
C11_DeleteKeepsRange ==
    [][\A id \in OutlineIds :
          (/\ Contiguous(outlines)
           /\ DeleteOutline(id)
           /\ last'.ok)
          => /\ Cardinality(outlines') = Cardinality(outlines) - 1
             /\ ~\E o \in outlines' : o.id = id
             /\ Contiguous(outlines')]_vars

\* C11 witness: the first of two outlines has been deleted and the outline
\* that was second is now numbered 1.
C11_Witness ==
    /\ last.op = "delete_outline"
    /\ last.ok
    /\ last.arg = 1
    /\ Cardinality(outlines) = 1
    /\ Contiguous(outlines)
    /\ nextOutlineId = 3

\* Chapter c is the chapter of outline o: it has the outline's number.
PairedWith(c, o) == c.chapter_number = o.order_index

\* Every outline has exactly one chapter under its number, which carries its
\* title, and every chapter has exactly one outline under its number.
Paired(outs, chs) ==
    /\ \A o \in outs :
          /\ Cardinality({c \in chs : PairedWith(c, o)}) = 1
          /\ \A c \in chs : PairedWith(c, o) => c.title = OutlineTitle(o)
    /\ \A c \in chs : Cardinality({o \in outs : PairedWith(c, o)}) = 1

\* No two of the outlines have the same order_index.
UniqueOrder(outs) == \A o, p \in outs : o.order_index = p.order_index => o = p

C13_UniqueOrder == UniqueOrder(outlines)

(***************************************************************************)
(* Claims about the prerequisite check.                                    *)
(***************************************************************************)
\* The chapters before chapter ch that have no content or blank content.
BlankBefore(ch) ==
    {p \in chapters : p.chapter_number < ch.chapter_number /\ Incomplete(p.content)}

\* The response to the request rejects it and lists the numbers of exactly
\* the chapters of S; no stream is opened.
RejectedListing(S) ==
    /\ ~last'.ok
    /\ streams' = streams
    /\ {last'.missing[i] : i \in 1..Len(last'.missing)} = {p.chapter_number : p \in S}
    /\ Len(last'.missing) = Cardinality(S)

EachOutlineHasChapter ==
    \A o \in outlines : Cardinality({c \in chapters : PairedWith(c, o)}) = 1

\* The chapters created since the behaviour began are drafts.
NewChaptersAreDrafts ==
    \A c \in chapters : c.id <= MaxIds => c = DraftChapter(c.id, c.chapter_number, c.title)

\* C15: after a successful continue-mode request for N outlines on a project
\* with outlines numbered 1..M, the project has M+N outlines numbered 1..M+N,
\* each with a chapter of its number, the new chapters being drafts.  (Stated
\* for the requests whose N rows the id bound has room for.)
C15_ContinueAddsN ==
    \A s \in StreamIds :
        (/\ streams[s].kind = "outline_continue"
         /\ Succeeded(s)
         /\ streams[s].todo <= MaxIds)
        => /\ streams[s].made = streams[s].todo
           /\ Contiguous(outlines)
           /\ EachOutlineHasChapter
           /\ NewChaptersAreDrafts

\* The sum of a sequence of numbers.
RECURSIVE SumOf(_)
SumOf(q) == IF q = <<>> THEN 0 ELSE Head(q) + SumOf(Tail(q))

\* C16: a continue-mode request for N outlines issues exactly ceil(N/5)
\* generation calls, each asking for 1 to 5 outlines, and the sizes asked for
\* sum to N.
C16_BatchPlan ==
    \A s \in StreamIds :
        (streams[s].kind = "outline_continue" /\ Succeeded(s))
        => LET st == streams[s]
           IN  /\ Len(st.asked) = CeilDiv(st.todo, OUTLINE_BATCH_SIZE)
               /\ \A i \in 1..Len(st.asked) : st.asked[i] \in 1..OUTLINE_BATCH_SIZE
               /\ SumOf(st.asked) = st.todo

\* The rows the batches of request st have committed are among outs and chs:
\* they are the last st.made rows created, requests being served in turn.
BatchesStored(st, outs, chs) ==
    \A i \in 1..st.made :
        /\ \E o \in outs : o.id = nextOutlineId - i
        /\ \E c \in chs : c.id = nextChapterId - i

\* C17: when generate_text fails in batch k of a continue-mode request, the
\* outlines and chapters committed by batches 1..k-1 stay stored, and the
\* stream ends with an error event.
C17_FailureKeepsEarlierBatches ==
    [][\A s \in StreamIds :
          ContFail(s)
          => /\ outlines' = outlines
             /\ chapters' = chapters
             /\ BatchesStored(streams[s], outlines', chapters')
             /\ streams'[s].events[Len(streams'[s].events)] = "error"
             /\ streams'[s].pc = "last_yield"]_vars

\* A second batch has failed after a first batch stored rows.
C17_Witness ==
    \E s \in StreamIds :
        /\ streams[s].kind = "outline_continue"
        /\ streams[s].pc = "last_yield"
        /\ Positions(s, "error") # {}
        /\ streams[s].batch >= 1
        /\ streams[s].made >= 1
        /\ BatchesStored(streams[s], outlines, chapters)

\* Stream s makes its LLM call in this step (the call returns or raises).
NewCall(s) == NewGenerate(s) \/ NewFail(s)

\* C18 (as stated): in new mode the existing outlines and chapters are
\* deleted before the LLM call is made: when the call is made, the DELETEs
\* have been issued.
C18_DeletedBeforeCall ==
    [][\A s \in StreamIds : NewCall(s) => streams[s].pending]_vars

\* C18 (amended): in new mode the LLM call is made first, with every existing
\* outline and chapter still stored and no DELETE issued; the DELETEs are
\* issued only by a request whose LLM call has returned.
C18_CallBeforeDelete ==
    [][\A s \in StreamIds :
          /\ NewCall(s)
             => /\ ~streams[s].pending
                /\ ~streams'[s].pending
                /\ outlines' = outlines
                /\ chapters' = chapters
          /\ NewClean(s)
             => /\ Len(streams[s].asked) = 1
                /\ Positions(s, "error") = {}
                /\ streams'[s].pending]_vars

\* The DELETEs of a new-mode request have been issued, after its LLM call,
\* over a project that had outlines.
C18_Witness ==
    \E s \in StreamIds :
        /\ streams[s].kind = "outline_new"
        /\ streams[s].pending
        /\ Len(streams[s].asked) = 1
        /\ outlines # {}

(***************************************************************************)
(* Claims about the wizard's batches.                                      *)
(***************************************************************************)
\* The number of items the last LLM call of st asked for.
LastAsked(st) == st.asked[Len(st.asked)]

\* The reply st holds fails the count validation of its generator: the
\* character stage wants exactly the number asked for, the outline stage at
\* least that number.  (A reply that does not parse holds no items.)
FailsValidation(st) ==
    IF st.kind = "wizard"
    THEN Len(st.reply) # LastAsked(st)
    ELSE Len(st.reply) < LastAsked(st)

\* Stream s parses the reply to the last attempt its batch is allowed.
LastRetryParse(s) ==
    \/ WizParse(s) /\ streams[s].retry = WIZARD_MAX_RETRIES - 1
    \/ WoParse(s) /\ streams[s].retry = STAGE_MAX_RETRIES - 1

\* The stream has sent an error event and has nothing further to send.
EndedWithError(st) ==
    /\ st.pc = "last_yield"
    /\ st.events # <<>>
    /\ st.events[Len(st.events)] = "error"

\* C19: when a batch still fails validation after its last retry, the request
\* ends with an error event and no item of any batch of the request is
\* persisted.
C19_FinalFailureAborts ==
    [][\A s \in StreamIds :
          /\ (LastRetryParse(s) /\ FailsValidation(streams'[s]))
             => EndedWithError(streams'[s])
          /\ (streams[s].kind \in {"wizard", "wizard_outline"}
              /\ Positions(s, "error") # {})
             => UNCHANGED storeVars]_vars

\* The reply st holds has more items than its LLM call asked for.
Surplus(st) == Len(st.reply) > LastAsked(st)

\* The step of stream s accepted the batch: the loop has moved past it
\* without an error event.
BatchAccepted(s) ==
    /\ streams'[s].batch = streams[s].batch + 1
    /\ Positions(s, "error") = {}
    /\ ~EndedWithError(streams'[s])

\* C20: when the model returns more items than a batch asked for, the batch
\* is accepted, without retry or error, and exactly the number of items asked
\* for is kept.
C20_SurplusTruncated ==
    [][\A s \in StreamIds :
          /\ (WizParse(s) /\ Surplus(streams'[s]))
             => /\ BatchAccepted(s)
                /\ streams'[s].made = streams[s].made + LastAsked(streams'[s])
          /\ (WoParse(s) /\ Surplus(streams'[s]))
             => BatchAccepted(s)
          /\ (WoPersist(s) /\ streams[s].made > streams[s].todo)
             => Cardinality(outlines') = Cardinality(outlines) + streams[s].todo]_vars

(***************************************************************************)
(* Claims about the persistence of a character batch.                      *)
(***************************************************************************)
\* The names under which the entities of the batch are stored.
EntityNames ==
    {IF all_characters[i].name = NO_NAME THEN UNNAMED ELSE all_characters[i].name :
        i \in 1..Len(all_characters)}

\* Row id is the row of an entity of the batch (of an organization of it).
IsEntityRow(id) ==
    \E r \in char_rows : r.id = id /\ r.name \in EntityNames
IsOrganizationRow(id) ==
    /\ id \in organizations
    /\ \E r \in char_rows : /\ r.id = id
                             /\ r.is_organization
                             /\ all_characters[id].is_organization
                             /\ r.name \in EntityNames

\* C21: after the batch is persisted, every relationship edge has an entity
\* of the batch as its target, and every organization membership has an
\* is-organization entity of the batch as its organization.
C21_NoHallucinatedEdges ==
    persist_pc = "done"
    => /\ \A e \in relationships : IsEntityRow(e.from) /\ IsEntityRow(e.to)
       /\ \A m \in members : IsOrganizationRow(m.organization) /\ IsEntityRow(m.character)

\* A batch has been persisted in which a character names a relationship
\* target outside the batch and is a member of an organization of the batch.
C21_Witness ==
    /\ persist_pc = "done"
    /\ \E m \in members :
          /\ "c" \in {RelationshipsData(all_characters[m.character])[k] :
                         k \in 1..Len(RelationshipsData(all_characters[m.character]))}
          /\ \A e \in relationships : e.from # m.character

(***************************************************************************)
(* Claims about the wizard outline stage.                                  *)
(***************************************************************************)
\* C22: after a successful wizard outline stage the project has exactly 5
\* outlines with order_index 1..5, each with a draft chapter of its number,
\* and is marked wizard-completed.
C22_FiveOutlines ==
    \A s \in StreamIds :
        (streams[s].kind = "wizard_outline" /\ Succeeded(s))
        => /\ Cardinality(outlines) = STAGE_CHAPTER_COUNT
           /\ {o.order_index : o \in outlines} = 1..STAGE_CHAPTER_COUNT
           /\ EachOutlineHasChapter
           /\ \A c \in chapters : c = DraftChapter(c.id, c.chapter_number, c.title)
           /\ wizard_status = "completed"

(***************************************************************************)
(* Claims about the results of an analysis.                                *)
(***************************************************************************)
\* C23: whenever an AnalysisTask has status completed, a PlotAnalysis row
\* exists for its chapter.
C23_CompletedHasAnalysis ==
    \A t \in TaskIds : tasks[t].status = "completed" => tasks[t].chapter \in analyses

\* A task has been completed.
C23_Witness ==
    \E t \in TaskIds : tasks[t].status = "completed" /\ workers[t].pc = "done"

(***************************************************************************)
(* Claims about the memory fragments of a chapter                          *)
(***************************************************************************)
MemoriesOf(c) == {m \in story_memories : m.chapter_id = c}

\* The fragments extract_memories_from_analysis derives, as a set.
DerivedFragments(analysis) ==
    {ExtractMemories(analysis)[k] : k \in DOMAIN ExtractMemories(analysis)}

\* The chapter of task t was analysed before, no other worker is on it, and
\* no row was stored for it since the worker of t deleted its rows.
Reanalysis(t) ==
    /\ MemoriesOf(tasks[t].chapter) = {}
    /\ \E u \in TaskIds \ {t} : /\ tasks[u].chapter = tasks[t].chapter
                                 /\ tasks[u].status = "completed"
    /\ \A u \in TaskIds \ {t} : tasks[u].chapter = tasks[t].chapter
                                    => workers[u].pc = "done"

\* C24: when the worker of a re-analysis leaves the step that stores the
\* memory fragments, the chapter's stored fragments are exactly the fragments
\* derived from the new analysis result, each stored once.
C24_FragmentsReplaced ==
    [][\A t \in TaskIds :
         (workers[t].pc = "add_memories" /\ workers'[t].pc # "add_memories" /\ Reanalysis(t))
         => LET c == tasks[t].chapter
                stored == {m \in story_memories' : m.chapter_id = c}
            IN  /\ {Memory(m.memory_type, m.content) : m \in stored}
                      = DerivedFragments(analysis_result[t])
                /\ Cardinality(stored) = Cardinality(DerivedFragments(analysis_result[t]))]_vars

(***************************************************************************)
(* Claims about the default writing style                                  *)
(***************************************************************************)
\* C25: whatever set-default requests and automatic assignments have run, in
\* whatever interleaving, no project has two ProjectDefaultStyle rows.
C25_OneDefaultPerProject ==
    \A d1, d2 \in default_styles : d1.project_id = d2.project_id => d1 = d2

\* Two requests for one project overlapped: the second to commit had deleted
\* its rows before the first committed, and one default style is stored.
C25_Witness ==
    \E r1, r2 \in SetDefaultIds :
        /\ set_default[r1].pc = "done"
        /\ set_default[r2].pc = "failed"
        /\ set_default[r2].project_id = set_default[r1].project_id
        /\ world.pc = "done"
        /\ DefaultsOf(default_styles, set_default[r1].project_id) # {}

(***************************************************************************)
(* Claims about the tool pre-pass                                          *)
(***************************************************************************)
ErrorsSent(st) == Len(SelectSeq(st.events, LAMBDA ev : ev = "error"))

\* The step of stream s ran a tool pre-pass, and the pre-pass raised.
PrePassRaised(s) ==
    /\ s \in StreamIds
    /\ streams[s].kind \in {"outline_new", "outline_continue"}
    /\ streams[s].pc \in {"begin", "batch"}
    /\ streams'[s].pc \notin {streams[s].pc, "end"}
    /\ streams'[s].prepass = "raise"

\* C26: a tool pre-pass that fails does not fail the request: the generator
\* sends no error event for it, holds no reference material, and goes on to
\* its LLM call.
C26_PrePassFailureGoesOn ==
    [][\A s \in StreamIds :
         PrePassRaised(s)
         => /\ ErrorsSent(streams'[s]) = ErrorsSent(streams[s])
            /\ streams'[s].mcp_reference_materials = ""
            /\ streams'[s].pc \in {"llm", "call"}]_vars

\* A stream whose pre-pass raised has ended with result and done, no error.
C26_Witness ==
    \E s \in StreamIds :
        /\ streams[s].prepass = "raise"
        /\ streams[s].pc = "last_yield"
        /\ ErrorsSent(streams[s]) = 0
        /\ \E i, j \in DOMAIN streams[s].events :
              i < j /\ streams[s].events[i] = "result" /\ streams[s].events[j] = "done"

(***************************************************************************)
(* Claims about requests without a tenant                                  *)
(***************************************************************************)
NoTenant == response.status # 0 /\ response.user_id = NO_USER

\* C27, as stated: a request that carries no tenant id is rejected by every
\* endpoint, no store handle is opened for it and no orchestrator runs for it.
C27_RejectedEverywhere ==
    NoTenant => /\ response.status = 401
                /\ response.session = NOTHING
                /\ response.orchestrator = NOTHING

\* C27, amended: for a request that carries no tenant id no store handle is
\* opened and no orchestrator runs, under no tenant; every endpoint that
\* depends on the store or on a signed-in user rejects it; and no engine is
\* ever opened for another key than the id of a user.
C27_NoStoreWithoutTenant ==
    /\ NoTenant => /\ response.session = NOTHING
                   /\ response.orchestrator = NOTHING
                   /\ response.endpoint # "preset_styles" => response.status = 401
    /\ engine_cache \subseteq UserIds

\* A disabled user whose engine is still cached asks for a stream and is
\* rejected.
C27_Witness ==
    /\ NoTenant
    /\ response.endpoint = "chapter_stream"
    /\ response.cookie \in engine_cache
    /\ response.status = 401

(***************************************************************************)
(* Claims about the write lock                                             *)
(***************************************************************************)
\* C28: every write to the user's store is made by a task that holds the
\* user's write lock.
C28_WritesHoldLock == write_log.by # 0 => write_log.holding

Waiting(a) == actors[a].pc = "waiting"

LockHeldInside ==
    write_lock.locked
    => \E a \in ActorIds : actors[a].holds /\ actors[a].pc \in {"inside", "wrote"}

\* C30: the lock is released however a write section is left, so a task
\* that waits for the lock does not wait forever.
C30_ReleasedOnEveryExit ==
    /\ []LockHeldInside
    /\ \A a \in ActorIds : Waiting(a) ~> ~Waiting(a)

\* A task left its section by an exception, another by cancellation, and a
\* task that had to wait is inside its section.
C30_Witness ==
    \E a, b, c \in ActorIds :
        /\ actors[a].left = "exception"
        /\ actors[b].left = "cancelled" /\ actors[b].sections > 0
        /\ actors[c].waited /\ actors[c].holds /\ actors[c].pc = "wrote"

\* C31: the task row is committed before its worker is started, so a worker
\* that begins finds its own row.
C31_WorkerFindsRow ==
    /\ \A t \in scheduled : t \in TaskIds
    /\ \A t \in 1..MaxTaskRows : workers[t].pc # "no_task"

\* A worker has loaded its row and is about to mark it running.
C31_Witness ==
    \E t \in TaskIds : workers[t].pc = "set_running" /\ tasks[t].status = "pending"

\* A step of the worker of task t.
WorkerStep(t) == workers'[t] # workers[t]

\* C32 (as stated): a commit that fails while the fragments are replaced or
\* the task is marked completed is tried again or ends the worker; it never
\* takes the worker to the branch that marks the task failed.
C32_Step4Retried ==
    [][\A t \in TaskIds :
         workers[t].pc \in {"save_memories", "add_memories", "complete"}
         => workers'[t].pc # "handler"]_vars

\* C32 (amended): only the commit that marks the task completed is tried
\* again, at most COMMIT_RETRIES times, and the worker that has used them up
\* returns without marking the task failed; a commit that fails while the
\* fragments are inserted is not tried again.
C32_FinalUpdateRetried ==
    [][\A t \in TaskIds :
         /\ (workers[t].pc = "complete" /\ WorkerStep(t))
            => /\ workers'[t].pc \in {"complete", "done"}
               /\ workers'[t].retry <= COMMIT_RETRIES
               /\ workers'[t].pc = "complete" => workers'[t].retry < COMMIT_RETRIES
               /\ tasks'[t].status \in {tasks[t].status, "completed"}
         /\ (workers[t].pc = "add_memories" /\ WorkerStep(t))
            => /\ workers'[t].pc \in {"vector_add", "handler"}
               /\ workers'[t].retry = 0]_vars

\* A worker has used up the attempts of the final update and returned; its
\* task is still running.
C32_Witness ==
    \E t \in TaskIds : /\ workers[t].pc = "done" /\ ~workers[t].raised
                        /\ workers[t].retry = COMMIT_RETRIES
                        /\ tasks[t].status = "running"

\* C33 (as stated): when the prompt of a batch has been built, its context
\* shows every outline the earlier batches of the request committed.
C33_ContextHasEarlierBatches ==
    continuation.pc = "save" => continuation.all_new_outlines \subseteq continuation.context

\* C33 (amended): the list a batch reads holds every outline the earlier
\* batches committed, and the context shows the last RECENT_SUMMARY_COUNT
\* of the list and every SKELETON_INTERVAL-th outline of a longer list.
C33_ListHasEarlierBatches ==
    continuation.pc = "save" =>
        LET g == continuation
            total_count == Cardinality(g.latest_outlines)
        IN  /\ g.all_new_outlines \subseteq g.latest_outlines
            /\ g.existing_outlines \subseteq g.latest_outlines
            /\ \A i \in g.latest_outlines :
                   i \in g.context <=>
                      \/ i > total_count - RECENT_SUMMARY_COUNT
                      \/ total_count > SKELETON_INTERVAL /\ (i - 1) % SKELETON_INTERVAL = 0

\* The prompt of a later batch is built over a list longer than the context
\* shows.
C33_Witness ==
    /\ continuation.pc = "save"
    /\ continuation.batch_num > 0
    /\ continuation.all_new_outlines # {}
    /\ Cardinality(continuation.latest_outlines) > SKELETON_INTERVAL

\* The elements of a sequence.
Range(seq) == {seq[i] : i \in 1..Len(seq)}

\* The LLM calls a character generation has made stay within MAX_RETRIES
\* for the batch it is at and for each batch it has finished.
CallsBounded(st) ==
    /\ st.retry <= WIZARD_MAX_RETRIES
    /\ st.pc \in {"attempt", "chunks"} => st.retry < WIZARD_MAX_RETRIES
    /\ Len(st.asked) <= WIZARD_MAX_RETRIES * st.batch
                           + (IF "error" \in Range(st.events)
                              THEN WIZARD_MAX_RETRIES ELSE st.retry)
    /\ Len(st.asked) <= WIZARD_MAX_RETRIES * CeilDiv(st.todo, WIZARD_BATCH_SIZE)

\* C34: a character generation calls the LLM at most MAX_RETRIES times for a
\* batch and 3 * ceil(N / 3) times in all, a generation that is read to its
\* end has sent a result or an error, and every generation ends.
C34_CharactersTerminate ==
    /\ [](\A s \in StreamIds : streams[s].kind = "wizard" => CallsBounded(streams[s]))
    /\ [][\A s \in StreamIds :
            (streams[s].kind = "wizard" /\ ~streams[s].closed /\ streams'[s].pc = "end")
            => {"result", "error"} \cap Range(streams[s].events) # {}]_vars
    /\ \A s \in 1..MaxServed :
           (Len(streams) >= s /\ streams[s].kind = "wizard")
           ~> (Len(streams) >= s /\ streams[s].pc = "end")

\* A generation of two batches has used every attempt of its second batch
\* and has sent its error.
C34_Witness ==
    \E s \in StreamIds :
        /\ streams[s].kind = "wizard"
        /\ streams[s].batch = 1
        /\ Len(streams[s].asked) > WIZARD_MAX_RETRIES
        /\ "error" \in Range(streams[s].events)

\* The caller is creating the engine, ensuring the schema or seeding.
Initializing(c) ==
    callers[c].pc \in {"creating", "create_all", "types_select", "types_commit",
                       "styles_select", "styles_commit"}

\* C35: at most one initialization of the user's storage is in flight.
C35_OneInitInFlight ==
    Cardinality({c \in CallerIds : Initializing(c)}) <= 1

\* C36: once an initialization has succeeded, and no other is in flight,
\* the preset relationship types and the global preset styles are in the
\* store exactly once.
C36_SeededOnce ==
    (/\ \E c \in CallerIds : callers[c].kind = "init_db" /\ callers[c].done > 0
     /\ \A c \in CallerIds : callers[c].pc = "idle")
    => relationship_types = 1 /\ writing_styles = 1

\* C37: a request that has left its handler or its generator, whatever the
\* way, has no open session and no transaction, and when every request is
\* over no session is active.
C37_SessionsClosed ==
    /\ \A r \in RequestIds :
          requests[r].pc \in {"open_generator", "finalize", "done"}
          => /\ requests[r].session = "closed"
             /\ ~requests[r].in_transaction /\ ~requests[r].pending
    /\ session_stats.active = session_stats.created - session_stats.closed
    /\ (\A r \in RequestIds : requests[r].pc = "done") => session_stats.active = 0

\* A chapter stream whose consumer disconnected while a write was flushed
\* is over, rolled back, beside a request that ended by an exception.
C37_Witness ==
    \E r, q \in RequestIds :
        /\ requests[r].kind = "chapter_stream" /\ requests[r].pc = "done"
        /\ requests[r].exit = "disconnect" /\ requests[r].rolled_back
        /\ requests[q].pc = "done" /\ requests[q].exit = "exception"
        /\ session_stats.created > 2

\* C38: the task of a worker that has returned is completed or failed.
C38_ReturnedTaskSettled ==
    \A t \in TaskIds :
        workers[t].pc = "done" => tasks[t].status \in {"completed", "failed"}

\* C39: when two workers have run at the same time on one chapter and both
\* have returned, a chapter that has its analysis row has as stored fragments
\* the fragments derived from one analysis result, each under its own id.
C39_OneAnalysisWins ==
    \A t \in TaskIds :
        (/\ workers[t].beside
         /\ \A u \in TaskIds : tasks[u].chapter = tasks[t].chapter => workers[u].pc = "done"
         /\ tasks[t].chapter \in analyses)
        => \E a \in Analyses :
              /\ {Memory(m.memory_type, m.content) : m \in MemoriesOf(tasks[t].chapter)}
                    = DerivedFragments(a)
              /\ Cardinality(MemoriesOf(tasks[t].chapter)) = Len(ExtractMemories(a))

(***************************************************************************)
(* Specification of a chapter stream beside edits: on a project of two     *)
(* chapters, the first one written, generate-stream requests are served    *)
(* one at a time while PUT and DELETE requests on chapters are served at   *)
(* any time.                                                               *)
(***************************************************************************)
NextEdit ==
    \/ CanServe /\ \E c \in ChapterIds : OpenChapterStream(c)
    \/ \E id \in ChapterIds : \E c \in Texts \cup {NULL} : UpdateChapter(id, c)
    \/ \E id \in ChapterIds : DeleteChapter(id)
    \/ \E s \in StreamIds : GenStart(s)
    \/ \E s \in StreamIds : GenChunk(s)
    \/ \E s \in StreamIds : GenFail(s)
    \/ \E s \in StreamIds : GenCommit(s)
    \/ \E s \in StreamIds : GenCreateTask(s)
    \/ \E s \in StreamIds : GenDone(s)
    \/ \E s \in StreamIds : GenAnalysisStarted(s)
    \/ \E s \in StreamIds : StreamFinish(s)

SpecEdit == InitGen /\ [][NextEdit]_vars

\* Stream s commits the generated content of its chapter in this step.
CommitsContent(s) ==
    /\ At(s, "chapter", "stream")
    /\ ~streams[s].db_committed
    /\ streams'[s].db_committed
    /\ ChapterExists(streams[s].chapter)

\* C40: at the step in which a chapter stream commits the generated content
\* of a chapter, every chapter of a smaller chapter_number has content.
C40_EarlierWrittenAtCommit ==
    [][\A s \in StreamIds :
          CommitsContent(s) =>
              \A p \in chapters' :
                  p.chapter_number < ChapterById(streams[s].chapter).chapter_number
                      => ~Incomplete(p.content)]_vars

====
